---- MODULE Spec2Model ----
(***************************************************************************)
(* pyGreenfoot: worlds, actors, the actor registry and the world's frame   *)
(* step, modelled from src/pygreenfoot/{world,actor,application,           *)
(* math_helper}.py.                                                        *)
(*                                                                         *)
(* Time is counted in ticks of 0.01 s.  Lists built from Python sets are   *)
(* modelled up to the set's iteration order: a query result is a bag, a    *)
(* dispatch log is any sequence the iteration order allows.                *)
(***************************************************************************)
EXTENDS Integers, Sequences, FiniteSets, Bags, TLC

VARIABLES
    appWorld,    \* Application.__world: the active world, or None
    bounding,    \* World.world_bounding, per world
    objects,     \* World.__objects, per world: kind -> set of actors
    pos,         \* Actor.__pos, per actor: <<x, y>>
    last,        \* history: the record of the last public call
    removed,     \* history, per world: the actors a remove_from_world has
                 \* unregistered and no add_to_world has registered since
    now,         \* time(): the wall clock, in ticks
    last_time,   \* World.__last_time, per world
    world_speed, \* World.world_speed, per world, in ticks
    running,     \* World.running, per world
    keySpace,    \* Application.__keys[K_SPACE]
    act_order,   \* World.__act_order, per world: a sequence of kinds
    frames,      \* history: the records of the last three _calc_frame calls
                 \* made since anything but the clock last changed
    actLog,      \* history: what the _calc_frame call just made dispatched
                 \* act() to, in order ("world" is the world's own act)
    appRunning,  \* Application.__running
    pc,          \* where Application.main is: "idle" before it is called,
                 \* "loop" in its while loop, "exited" after exit(0),
                 \* "raised" when an exception left it
    frameLog,    \* history: what the Application.update call just made did,
                 \* in order
    paint_order, \* World.__paint_order, per world: a sequence of kinds
    background,  \* whether World.__background is set, per world
    texts,       \* World.__texts, per world: the overlay texts shown
    drawLog,     \* history: what the last repaint call drew, in order, if no
                 \* paint setting changed since
    winSize,     \* Application.__size and the size of Application.__screen
    maximized,   \* Application.__maximized
    scrollbar,   \* Application.__scrollbar: <<horizontal, vertical>> needed
    thumb,       \* <<__scrollbar_rects[0].x, __scrollbar_rects[1].y>>
    thumbLen,    \* <<__scrollbar_rects[0].width, __scrollbar_rects[1].height>>
    delta_move,  \* Application.__delta_move: <<x, y>>, each a fraction
                 \* [num, den] with den > 0
    mouse_down,  \* Application.__mouse_down: None, "0" or "1"
    thumbOff,    \* <<__scrollbar_rects[0].y, __scrollbar_rects[1].x>>
    fps_limit,   \* Application.__fps_limit
    config,      \* Application.__config, by key
    parsed,      \* read_config: the dictionary parsed so far
    lineNo,      \* read_config: the number of lines read
    reported,    \* read_config: the number of lines reported
    cfgPc,       \* where the setup stands: "idle", "reading", "read",
                 \* "applied", or "raised" once an exception left read_config
    iter,        \* InitActor.__iter, per InitActor
    initCalls,   \* history: how often init() was invoked, per InitActor
    initRaised,  \* history: how often init() raised, per InitActor
    actCalls,    \* history: how often act() was called, per InitActor
    held,        \* the list the last list-returning query returned
    cursor,      \* how many elements of held the for loop over it has taken
    yielded      \* history: the elements the for loop over held has taken

worldVars == <<now, last_time, world_speed, running, keySpace, act_order>>
frameVars == <<worldVars, frames, actLog>>

appVars == <<appRunning, pc, frameLog>>
paintVars == <<paint_order, background, texts, drawLog>>
scrollVars == <<winSize, maximized, scrollbar, thumb, thumbLen, delta_move, mouse_down,
                thumbOff>>
cfgVars == <<fps_limit, config, parsed, lineNo, reported, cfgPc>>
initVars == <<iter, initCalls, initRaised, actCalls>>
iterVars == <<held, cursor, yielded>>
viewVars == <<paintVars, scrollVars, cfgVars, initVars, iterVars>>

vars == <<appWorld, bounding, objects, pos, last, removed, frameVars, appVars,
          viewVars>>

None == "None"

(***************************************************************************)
(* Bounds of the model.                                                    *)
(***************************************************************************)
MaxCoord == 2          \* position arguments range over -1 .. MaxCoord
MaxSteps == 1          \* move(steps) with steps in 1 .. MaxSteps
MaxTime == 21          \* the clock stops at MaxTime ticks
MaxOrderLen == 2       \* set_act_order with at most MaxOrderLen kinds
MaxAppTime == 10       \* Application.main is followed up to MaxAppTime ticks
MaxRadius == 1         \* get_actors_in_range with radius in 0 .. MaxRadius
MaxCells == 1          \* get_neighbours with cells in 0 .. MaxCells
MaxThumb == 600        \* thumb positions are followed within -MaxThumb .. MaxThumb
MaxLines == 2          \* read_config is followed over files of at most MaxLines lines
MaxActs == 4           \* act() is called at most MaxActs times on an InitActor

Coords == -1 .. MaxCoord

(***************************************************************************)
(* The worlds and actors the program has constructed.  The sizes are the   *)
(* arguments of World.__init__ (world.py:50-55); the kinds are the user's  *)
(* Actor subclasses, with Golem(Wall, Player) inheriting along two paths.  *)
(***************************************************************************)
Worlds == {"w1", "w2"}
Width  == [w1 |-> 2, w2 |-> 1]
Height == [w1 |-> 2, w2 |-> 1]

Kinds == {"Actor", "Solid", "Wall", "Player", "Golem", "Coin"}

\* type_.__subclasses__(): the direct subclasses, in definition order
DirectSubclasses ==
    [Actor  |-> <<"Solid", "Coin">>,
     Solid  |-> <<"Wall", "Player">>,
     Wall   |-> <<"Golem">>,
     Player |-> <<"Golem">>,
     Golem  |-> <<>>,
     Coin   |-> <<>>]

Actors == {"a1", "a2", "a3", "a4", "a5"}
\* type(game_object): the concrete kind of each actor
KindOf == [a1 |-> "Wall", a2 |-> "Player", a3 |-> "Golem", a4 |-> "Coin",
           a5 |-> "Wall"]

PosActors == {"a1"}

(***************************************************************************)
(* math_helper.limit_value                                                 *)
(***************************************************************************)
limit_value(value, min_, max_) ==
    IF value < min_ THEN min_
    ELSE IF value > max_ THEN max_
    ELSE value

(***************************************************************************)
(* Actor.get_world: the application's active world, whatever world the     *)
(* actor was added to; Application.current_world raises ValueError when    *)
(* no world has been set.                                                  *)
(***************************************************************************)
get_world == appWorld

(***************************************************************************)
(* Actor.__check_boundary applied to a stored position p: no clamp when    *)
(* get_world raises ValueError or the active world is not bounding.        *)
(***************************************************************************)
check_boundary(p) ==
    IF get_world = None THEN p
    ELSE IF bounding[get_world]
         THEN <<limit_value(p[1], 0, Width[get_world] - 1),
                limit_value(p[2], 0, Height[get_world] - 1)>>
         ELSE p

\* the set of actors registered in world w (the union of World.__objects)
Registered(w) == UNION {objects[w][k] : k \in Kinds}

\* World.number_of_actors
number_of_actors(w) ==
    LET RECURSIVE Sum(_)
        Sum(S) == IF S = {} THEN 0
                  ELSE LET k == CHOOSE k \in S : TRUE
                       IN Cardinality(objects[w][k]) + Sum(S \ {k})
    IN Sum(Kinds)

(***************************************************************************)
(* History of calls.  Every record has the same fields; a call fills the   *)
(* ones it has.                                                            *)
(*   op       the operation                                                *)
(*   w, a     the world and the actor it was called on                     *)
(*   x, y     position arguments                                           *)
(*   read     actor.x and actor.y were read right after the call           *)
(*   rx, ry   the values that read returned                                *)
(*   kind     the type_ argument of a query                                *)
(*   hooks    how many times the call invoked a hook of the actor          *)
(*   hookReg  whether the actor was registered in w when the hook ran      *)
(*   hookPos  the actor's stored position when the hook ran                *)
(*   hookArg  the world the hook was called with                           *)
(*   err      the exception the call raised, or "none"                     *)
(*   res      a query's result list, as a bag                              *)
(*   n        number_of_actors() of w when the call began                  *)
(*   before   the actors registered in each world when the call began      *)
(*   flag     a boolean argument (diagonal, fail_silently)                 *)
(*   ret      a boolean return value                                       *)
(***************************************************************************)
\* a call other than _calc_frame starts a new window of frame records; it
\* is no step of Application.main
NoFrame == frames' = <<>> /\ actLog' = <<>> /\ UNCHANGED <<appVars, viewVars>>

Call(op, w, a) ==
    [op |-> op, w |-> w, a |-> a, x |-> 0, y |-> 0,
     read |-> FALSE, rx |-> 0, ry |-> 0,
     kind |-> None, hooks |-> 0, hookReg |-> FALSE, hookPos |-> <<0, 0>>,
     hookArg |-> None, err |-> "none",
     res |-> EmptyBag, n |-> 0, before |-> [v \in Worlds |-> {}],
     flag |-> FALSE, ret |-> FALSE, ev |-> None, arg |-> <<0, 0>>,
     len |-> <<0, 0>>, pos |-> <<0, 0>>, rel |-> <<0, 0>>]

(***************************************************************************)
(* Application.current_world = w (the setter, for a World instance)        *)
(***************************************************************************)
SetCurrentWorld(w) ==
    /\ appWorld' = w
    /\ last' = (Call("current_world", w, None))
    /\ UNCHANGED <<bounding, objects, pos, removed, worldVars>>
       /\ NoFrame

(***************************************************************************)
(* World.add_to_world(game_object, x, y) on the registry objs of one world *)
(* and the stored positions p: TypeError for an object that is no Actor;   *)
(* otherwise register under the concrete kind, set_position, then the      *)
(* on_world_add hook, called with the world.                               *)
(***************************************************************************)
\* objects handed to add_to_world that are no Actor instances
NonActors == {"o1"}

\* add_to_world without the isinstance test
add_to_world_unchecked(objs, p, game_object, x, y) ==
    LET isActor == game_object \in Actors
        registered == IF isActor
                      THEN [objs EXCEPT ![KindOf[game_object]] = @ \cup {game_object}]
                      ELSE objs
        placed == IF isActor
                  THEN [p EXCEPT ![game_object] = check_boundary(<<x, y>>)]
                  ELSE p
    IN [objs |-> registered, pos |-> placed, hooks |-> 1,
        hookReg |-> isActor,
        hookPos |-> IF isActor THEN placed[game_object] ELSE <<x, y>>,
        err |-> "none"]

\* add_to_world with the hook called before the registration
add_to_world_hook_first(objs, p, game_object, x, y) ==
    IF game_object \notin Actors
    THEN [objs |-> objs, pos |-> p, hooks |-> 0, hookReg |-> FALSE,
          hookPos |-> <<0, 0>>, err |-> "TypeError"]
    ELSE LET registered == [objs EXCEPT ![KindOf[game_object]] = @ \cup {game_object}]
             placed == [p EXCEPT ![game_object] = check_boundary(<<x, y>>)]
         IN [objs |-> registered, pos |-> placed, hooks |-> 1,
             hookReg |-> game_object \in objs[KindOf[game_object]],
             hookPos |-> p[game_object],
             err |-> "none"]

add_to_world(objs, p, game_object, x, y) ==
    IF game_object \notin Actors
    THEN [objs |-> objs, pos |-> p, hooks |-> 0, hookReg |-> FALSE,
          hookPos |-> <<0, 0>>, err |-> "TypeError"]
    ELSE LET registered == [objs EXCEPT ![KindOf[game_object]] = @ \cup {game_object}]
             placed == [p EXCEPT ![game_object] = check_boundary(<<x, y>>)]
         IN [objs |-> registered, pos |-> placed, hooks |-> 1,
             hookReg |-> game_object \in registered[KindOf[game_object]],
             hookPos |-> placed[game_object],
             err |-> "none"]

AddToWorld(w, a, x, y) ==
    LET r == add_to_world(objects[w], pos, a, x, y)
    IN /\ objects' = [objects EXCEPT ![w] = r.objs]
       /\ pos' = r.pos
       /\ last' = ([Call("add_to_world", w, a) EXCEPT
                            !.x = x, !.y = y, !.hooks = r.hooks,
                            !.hookReg = r.hookReg, !.hookPos = r.hookPos,
                            !.hookArg = IF r.hooks > 0 THEN w ELSE None,
                            !.err = r.err])
       /\ removed' = IF r.err = "none"
                     THEN [removed EXCEPT ![w] = @ \ {a}]
                     ELSE removed
       /\ UNCHANGED <<appWorld, bounding, worldVars>>
       /\ NoFrame

(***************************************************************************)
(* Actor.set_position(x, y)                                                *)
(***************************************************************************)
SetPosition(a, x, y) ==
    /\ pos' = [pos EXCEPT ![a] = check_boundary(<<x, y>>)]
    /\ last' = ([Call("set_position", None, a) EXCEPT !.x = x, !.y = y])
    /\ UNCHANGED <<appWorld, bounding, objects, removed, worldVars>>
       /\ NoFrame

(***************************************************************************)
(* actor.x = value and actor.y = value (the property setters)              *)
(***************************************************************************)
SetX(a, value) ==
    /\ pos' = [pos EXCEPT ![a] = check_boundary(<<value, pos[a][2]>>)]
    /\ last' = ([Call("x.setter", None, a) EXCEPT !.x = value])
    /\ UNCHANGED <<appWorld, bounding, objects, removed, worldVars>>
       /\ NoFrame

SetY(a, value) ==
    /\ pos' = [pos EXCEPT ![a] = check_boundary(<<pos[a][1], value>>)]
    /\ last' = ([Call("y.setter", None, a) EXCEPT !.y = value])
    /\ UNCHANGED <<appWorld, bounding, objects, removed, worldVars>>
       /\ NoFrame

(***************************************************************************)
(* Actor.move(steps) for an actor facing 0, 90, 180 or 270 degrees:        *)
(* self.x += round(steps * cos), then self.y += round(steps * sin); each   *)
(* += is a read through the getter and a write through the setter.         *)
(***************************************************************************)
Rotations == {0, 90, 180, 270}
Cos(rot) == CASE rot = 0 -> 1 [] rot = 180 -> -1 [] OTHER -> 0
Sin(rot) == CASE rot = 90 -> 1 [] rot = 270 -> -1 [] OTHER -> 0

Move(a, steps, rot) ==
    LET p1 == check_boundary(pos[a])
        p2 == check_boundary(<<p1[1] + steps * Cos(rot), p1[2]>>)
        p3 == check_boundary(p2)
        p4 == check_boundary(<<p3[1], p3[2] + steps * Sin(rot)>>)
    IN /\ p4[1] \in Coords /\ p4[2] \in Coords    \* keeps the model finite
       /\ pos' = [pos EXCEPT ![a] = p4]
       /\ last' = ([Call("move", None, a) EXCEPT
                            !.x = steps * Cos(rot), !.y = steps * Sin(rot)])
       /\ UNCHANGED <<appWorld, bounding, objects, removed, worldVars>>
       /\ NoFrame

(***************************************************************************)
(* Reading actor.x and then actor.y: each getter runs __check_boundary on  *)
(* the stored position before it returns the coordinate.  A read that      *)
(* follows a call on the same actor is noted in that call's record.        *)
(***************************************************************************)
ReadXY(a) ==
    LET p1 == check_boundary(pos[a])
        p2 == check_boundary(p1)
        rec == IF last.a = a THEN last ELSE Call("read", None, a)
    IN /\ pos' = [pos EXCEPT ![a] = p2]
       /\ last' = [rec EXCEPT !.read = TRUE, !.rx = p1[1], !.ry = p2[2]]
       /\ UNCHANGED <<appWorld, bounding, objects, removed, worldVars>>
       /\ NoFrame

(***************************************************************************)
(* World._get_subclasses(type_): type_, then recursively the subclasses of *)
(* each direct subclass, as the generator yields them.                     *)
(***************************************************************************)
RECURSIVE get_subclasses(_)
get_subclasses(type_) ==
    LET subs == DirectSubclasses[type_]
        RECURSIVE Below(_)
        Below(i) == IF i > Len(subs) THEN <<>>
                    ELSE get_subclasses(subs[i]) \o Below(i + 1)
    IN <<type_>> \o Below(1)

(***************************************************************************)
(* World.get_actors(type_) on the registry objs of one world: the list     *)
(* the generator yields, as a bag.  None and Actor yield every set of the  *)
(* registry; any other kind yields the set of each entry of                *)
(* _get_subclasses(type_).                                                 *)
(***************************************************************************)
get_actors(objs, type_) ==
    LET RECURSIVE All(_)
        All(S) == IF S = {} THEN EmptyBag
                  ELSE LET k == CHOOSE k \in S : TRUE
                       IN SetToBag(objs[k]) (+) All(S \ {k})
        bases == get_subclasses(type_)
        RECURSIVE Each(_)
        Each(i) == IF i > Len(bases) THEN EmptyBag
                   ELSE SetToBag(objs[bases[i]]) (+) Each(i + 1)
    IN IF type_ = None \/ type_ = "Actor" THEN All(Kinds) ELSE Each(1)

GetActors(w, type_) ==
    /\ last' = [Call("get_actors", w, None) EXCEPT
                   !.kind = type_, !.res = get_actors(objects[w], type_)]
    /\ UNCHANGED <<appWorld, bounding, objects, pos, removed, worldVars>>
       /\ NoFrame

(***************************************************************************)
(* World.remove_from_world(actor) on the registry objs of one world: the   *)
(* on_world_remove hook first, then set.remove on the set of the actor's   *)
(* kind, which raises KeyError when the actor is not in it.                *)
(***************************************************************************)
\* the hook run after the actor is unregistered
remove_from_world_hook_late(objs, a) ==
    LET present == a \in objs[KindOf[a]]
        after == IF present THEN [objs EXCEPT ![KindOf[a]] = @ \ {a}] ELSE objs
    IN [hooks   |-> IF present THEN 1 ELSE 0,
        hookReg |-> a \in after[KindOf[a]],
        objs    |-> after,
        err     |-> IF present THEN "none" ELSE "KeyError"]

remove_from_world(objs, a) ==
    LET atHook == objs
        present == a \in atHook[KindOf[a]]
    IN [hooks   |-> 1,
        hookReg |-> a \in atHook[KindOf[a]],
        objs    |-> IF present
                    THEN [atHook EXCEPT ![KindOf[a]] = @ \ {a}]
                    ELSE atHook,
        err     |-> IF present THEN "none" ELSE "KeyError"]

RemoveFromWorld(w, a) ==
    LET r == remove_from_world(objects[w], a)
    IN /\ objects' = [objects EXCEPT ![w] = r.objs]
       /\ last' = [Call("remove_from_world", w, a) EXCEPT
                      !.hooks = r.hooks, !.hookReg = r.hookReg,
                      !.err = r.err, !.n = number_of_actors(w),
                      !.before = [v \in Worlds |-> Registered(v)]]
       /\ removed' = IF r.err = "none"
                     THEN [removed EXCEPT ![w] = @ \cup {a}]
                     ELSE removed
       /\ UNCHANGED <<appWorld, bounding, pos, worldVars>>
       /\ NoFrame

\* every order a Python set S can be iterated in
Orderings(S) ==
    {f \in [1 .. Cardinality(S) -> S] : \A i, j \in DOMAIN f : i # j => f[i] # f[j]}

(***************************************************************************)
(* World.__act_cycle on the registry objs of one world: the dispatch logs  *)
(* it can produce.  "world" is self.act(); then, for each entry of the     *)
(* act order, the set of that kind; then the sets of the kinds in          *)
(* set(self.__objects) - done.  (Kinds with an empty set add nothing, so   *)
(* only the non-empty ones are ordered here.)                              *)
(***************************************************************************)
\* the unlisted kinds dispatched before the listed ones
act_cycle_unlisted_first(order, objs) ==
    LET RECURSIVE Listed(_)
        Listed(i) ==
            IF i > Len(order) THEN {<<>>}
            ELSE {p \o rest : p \in Orderings(objs[order[i]]), rest \in Listed(i + 1)}
        done == {order[i] : i \in 1 .. Len(order)}
        others == {k \in Kinds \ done : objs[k] # {}}
        RECURSIVE Each(_, _)
        Each(ks, i) ==
            IF i > Len(ks) THEN {<<>>}
            ELSE {p \o rest : p \in Orderings(objs[ks[i]]), rest \in Each(ks, i + 1)}
        Unlisted == UNION {Each(ks, 1) : ks \in Orderings(others)}
    IN {<<"world">> \o u \o l : l \in Listed(1), u \in Unlisted}

\* an entry of the act order dispatching the actors of its subkinds as well
act_cycle_subkinds_listed(order, objs) ==
    LET Under(k) == UNION {objs[j] : j \in {get_subclasses(k)[i] :
                                              i \in DOMAIN get_subclasses(k)}}
        RECURSIVE Listed(_)
        Listed(i) ==
            IF i > Len(order) THEN {<<>>}
            ELSE {p \o rest : p \in Orderings(Under(order[i])), rest \in Listed(i + 1)}
        done == UNION {{get_subclasses(order[i])[j] : j \in DOMAIN get_subclasses(order[i])} :
                       i \in 1 .. Len(order)}
        others == {k \in Kinds \ done : objs[k] # {}}
        RECURSIVE Each(_, _)
        Each(ks, i) ==
            IF i > Len(ks) THEN {<<>>}
            ELSE {p \o rest : p \in Orderings(objs[ks[i]]), rest \in Each(ks, i + 1)}
        Unlisted == UNION {Each(ks, 1) : ks \in Orderings(others)}
    IN {<<"world">> \o l \o u : l \in Listed(1), u \in Unlisted}

act_cycle(order, objs) ==
    LET RECURSIVE Listed(_)
        Listed(i) ==
            IF i > Len(order) THEN {<<>>}
            ELSE {p \o rest : p \in Orderings(objs[order[i]]), rest \in Listed(i + 1)}
        done == {order[i] : i \in 1 .. Len(order)}
        others == {k \in Kinds \ done : objs[k] # {}}
        RECURSIVE Each(_, _)
        Each(ks, i) ==
            IF i > Len(ks) THEN {<<>>}
            ELSE {p \o rest : p \in Orderings(objs[ks[i]]), rest \in Each(ks, i + 1)}
        Unlisted == UNION {Each(ks, 1) : ks \in Orderings(others)}
    IN {<<"world">> \o l \o u : l \in Listed(1), u \in Unlisted}

(***************************************************************************)
(* World._check_world_time at clock reading t, and                         *)
(* World._calc_frame, its two branches: what a call at clock t does given  *)
(* self.running, self.__last_time, the gate's answer and the state of the  *)
(* space key.                                                              *)
(*   act       whether the act cycle runs                                  *)
(*   paint     whether repaint runs                                        *)
(*   lastTime  self.__last_time after the call                             *)
(*   running   self.running after the call                                 *)
(***************************************************************************)
\* the gate compared with > instead of >=
check_world_time_strict(t, speed, lastTime) == t > speed + lastTime

\* the gate without the world speed
check_world_time_no_speed(t, speed, lastTime) == t >= lastTime

check_world_time(t, speed, lastTime) == t >= speed + lastTime

\* the resume branch without the key test
calc_frame_resume_any(isRunning, due, key, t, lastTime) ==
    [act      |-> isRunning /\ due,
     paint    |-> isRunning /\ due,
     lastTime |-> IF isRunning /\ due THEN t ELSE lastTime,
     running  |-> TRUE]

\* the resume branch falling through to the gate
calc_frame_fall_through(isRunning, due, key, t, lastTime) ==
    LET resumed == isRunning \/ key
    IN [act      |-> resumed /\ due,
        paint    |-> resumed /\ due,
        lastTime |-> IF resumed /\ due THEN t ELSE lastTime,
        running  |-> resumed]

calc_frame(isRunning, due, key, t, lastTime) ==
    IF isRunning /\ due
    THEN [act |-> TRUE, paint |-> TRUE, lastTime |-> t, running |-> isRunning]
    ELSE IF ~isRunning /\ key
    THEN [act |-> FALSE, paint |-> FALSE, lastTime |-> lastTime, running |-> TRUE]
    ELSE [act |-> FALSE, paint |-> FALSE, lastTime |-> lastTime,
          running |-> isRunning]

(***************************************************************************)
(* History of _calc_frame calls: one record per call.                      *)
(*   at          the clock when the gate was evaluated                     *)
(*   lastTime    __last_time when the call began                           *)
(*   wasRunning  self.running when the call began                          *)
(*   acted, painted   whether it ran the act cycle, the repaint            *)
(* world_speed and the space key are those of the state the window ends    *)
(* in: a call that changes either starts a new window.                     *)
(***************************************************************************)
PushFrame(r) == IF Len(frames) < 3 THEN Append(frames, r) ELSE Tail(frames) \o <<r>>

(***************************************************************************)
(* Application.update's world step: current_world._calc_frame().           *)
(* __last_time is read off the clock after the act cycle and the repaint,  *)
(* which take less than a tick.                                            *)
(***************************************************************************)
CalcFrame(w) ==
    LET due == check_world_time(now, world_speed[w], last_time[w])
        r == calc_frame(running[w], due, keySpace, now, last_time[w])
    IN /\ w # None
       /\ running' = [running EXCEPT ![w] = r.running]
       /\ last_time' = [last_time EXCEPT ![w] = r.lastTime]
       /\ IF r.act
          THEN \E log \in act_cycle(act_order[w], objects[w]) : actLog' = log
          ELSE actLog' = <<>>
       /\ frames' = PushFrame([at |-> now, lastTime |-> last_time[w],
                               wasRunning |-> running[w],
                               acted |-> r.act, painted |-> r.paint])
       /\ last' = Call("_calc_frame", w, None)
       /\ UNCHANGED <<appWorld, bounding, objects, pos, removed, now,
                      world_speed, keySpace, act_order, appVars, viewVars>>

\* the clock advances between calls
Tick(d) ==
    /\ now + d <= MaxTime
    /\ now' = now + d
    /\ last' = Call("tick", None, None)
    /\ frames' = frames
    /\ actLog' = <<>>
    /\ UNCHANGED <<appWorld, bounding, objects, pos, removed, last_time,
                   world_speed, running, keySpace, act_order, appVars, viewVars>>

\* the caller assigns world.running = False
Pause(w) ==
    /\ w # None
    /\ running' = [running EXCEPT ![w] = FALSE]
    /\ last' = Call("running = False", w, None)
    /\ NoFrame
    /\ UNCHANGED <<appWorld, bounding, objects, pos, removed, now, last_time,
                   world_speed, keySpace, act_order>>

\* the caller assigns world.world_speed (main.py:17)
SetWorldSpeed(w, speed) ==
    /\ w # None
    /\ world_speed' = [world_speed EXCEPT ![w] = speed]
    /\ last' = Call("world_speed =", w, None)
    /\ NoFrame
    /\ UNCHANGED <<appWorld, bounding, objects, pos, removed, now, last_time,
                   running, keySpace, act_order>>

(***************************************************************************)
(* Application.__handle_events on a KEYDOWN (down = TRUE) or KEYUP event   *)
(* of the space key                                                        *)
(***************************************************************************)
KeyEvent(down) ==
    /\ keySpace' = down
    /\ last' = Call("key event", None, None)
    /\ NoFrame
    /\ UNCHANGED <<appWorld, bounding, objects, pos, removed, now, last_time,
                   world_speed, running, act_order>>

\* World.set_act_order(*act_order)
SetActOrder(w, order) ==
    /\ w # None
    /\ act_order' = [act_order EXCEPT ![w] = order]
    /\ last' = Call("set_act_order", w, None)
    /\ NoFrame
    /\ UNCHANGED <<appWorld, bounding, objects, pos, removed, now, last_time,
                   world_speed, running, keySpace>>

(***************************************************************************)
(* The InitActor instances of the program.                                 *)
(***************************************************************************)
InitActors == {"i1", "i2", "i3"}

(***************************************************************************)
(* The keys of Application.DEFAULT_CONFIG the model follows, with their    *)
(* defaults (None is <<>>).                                                *)
(***************************************************************************)
ConfigKeys == {"fpsLimit", "defaultWorldSpeed", "windowWidth", "windowMode", "vsync"}
DEFAULT_CONFIG ==
    [k \in ConfigKeys |->
        CASE k = "fpsLimit" -> 60
          [] k = "defaultWorldSpeed" -> 0
          [] k = "windowWidth" -> <<>>
          [] k = "windowMode" -> "RESIZABLE"
          [] k = "vsync" -> FALSE]

(***************************************************************************)
(* The canvas of every world (World._surface) is Canvas pixels wide and    *)
(* high; the window opens FirstWindow pixels wide and high.                *)
(***************************************************************************)
Canvas == <<2000, 2000>>
FirstWindow == <<800, 600>>
Zero == [num |-> 0, den |-> 1]

(***************************************************************************)
(* What World.__init__ and Application.__init__ leave of the paint and     *)
(* scrollbar state, and Application.__update_screen of the window.         *)
(***************************************************************************)
InitView ==
    /\ paint_order = [w \in Worlds |-> <<>>]
    /\ background = [w \in Worlds |-> FALSE]
    /\ texts = [w \in Worlds |-> {}]
    /\ drawLog = <<>>
    /\ winSize = FirstWindow
    /\ maximized = FALSE
    /\ scrollbar = <<FirstWindow[1] < Canvas[1], FirstWindow[2] < Canvas[2]>>
    /\ thumb = <<0, 0>>
    /\ thumbLen = <<0, 0>>
    /\ delta_move = <<Zero, Zero>>
    /\ mouse_down = None
    /\ thumbOff = <<0, 0>>
    /\ fps_limit = 60
    /\ config = DEFAULT_CONFIG
    /\ parsed = <<>>
    /\ lineNo = 0
    /\ reported = 0
    /\ cfgPc = "idle"
    /\ iter = [a \in InitActors |-> 0]
    /\ initCalls = [a \in InitActors |-> 0]
    /\ initRaised = [a \in InitActors |-> 0]
    /\ actCalls = [a \in InitActors |-> 0]
    /\ held = <<>>
    /\ cursor = 0
    /\ yielded = <<>>

(***************************************************************************)
(* The frame state of freshly constructed worlds (World.__init__), at      *)
(* clock 0.                                                                *)
(***************************************************************************)
InitFrame ==
    /\ now = 0
    /\ last_time = [w \in Worlds |-> 0]
    /\ world_speed = [w \in Worlds |-> 0]
    /\ running = [w \in Worlds |-> TRUE]
    /\ keySpace = FALSE
    /\ act_order = [w \in Worlds |-> <<>>]
    /\ frames = <<>>
    /\ actLog = <<>>
    /\ appRunning = FALSE
    /\ pc = "idle"
    /\ frameLog = <<>>
    /\ InitView

(***************************************************************************)
(* Positions: worlds and one actor constructed, no active world yet (an    *)
(* actor added in a World's constructor is added before                    *)
(* Application.main assigns current_world).                                *)
(***************************************************************************)
InitPos ==
    /\ appWorld = None
    /\ bounding \in [Worlds -> BOOLEAN]
    /\ objects = [w \in Worlds |-> [k \in Kinds |-> {}]]
    /\ pos = [a \in Actors |-> <<0, 0>>]
    /\ last = Call("init", None, None)
    /\ removed = [w \in Worlds |-> {}]
    /\ InitFrame

NextPos ==
    \/ \E w \in Worlds : SetCurrentWorld(w)
    \/ \E w \in Worlds, a \in PosActors, x \in Coords, y \in Coords :
          AddToWorld(w, a, x, y)
    \/ \E a \in PosActors, x \in Coords, y \in Coords : SetPosition(a, x, y)
    \/ \E a \in PosActors, v \in Coords : SetX(a, v)
    \/ \E a \in PosActors, v \in Coords : SetY(a, v)
    \/ \E a \in PosActors, s \in 1 .. MaxSteps, r \in Rotations : Move(a, s, r)
    \/ \E a \in PosActors : ReadXY(a)

SpecPos == InitPos /\ [][NextPos]_vars

(***************************************************************************)
(* The registry: add, remove and query by kind, over two worlds.           *)
(***************************************************************************)
RegActors == {"a1", "a3", "a4"}

InitReg ==
    /\ appWorld = None
    /\ bounding = [w \in Worlds |-> TRUE]
    /\ objects = [w \in Worlds |-> [k \in Kinds |-> {}]]
    /\ pos = [a \in Actors |-> <<0, 0>>]
    /\ last = Call("init", None, None)
    /\ removed = [w \in Worlds |-> {}]
    /\ InitFrame

NextReg ==
    \/ \E w \in Worlds, a \in RegActors \cup NonActors : AddToWorld(w, a, 0, 0)
    \/ \E w \in Worlds, a \in RegActors : RemoveFromWorld(w, a)
    \/ \E w \in Worlds, k \in Kinds \cup {None} : GetActors(w, k)

SpecReg == InitReg /\ [][NextReg]_vars

(***************************************************************************)
(* The timestep gate and the pause state of the active world w1.           *)
(* world_speed is 0 (the default) or 10 ticks (0.1 s); the clock advances  *)
(* by 1 or 5 ticks.                                                        *)
(***************************************************************************)
Speeds == {0, 10}
TickSizes == {1, 5}

InitGate ==
    /\ appWorld = "w1"
    /\ bounding = [w \in Worlds |-> TRUE]
    /\ objects = [w \in Worlds |-> [k \in Kinds |->
                     IF w = "w1" /\ k = "Wall" THEN {"a1"} ELSE {}]]
    /\ pos = [a \in Actors |-> <<0, 0>>]
    /\ last = Call("init", None, None)
    /\ removed = [w \in Worlds |-> {}]
    /\ InitFrame

NextGate ==
    \/ CalcFrame(appWorld)
    \/ \E d \in TickSizes : Tick(d)
    \/ Pause(appWorld)
    \/ \E s \in Speeds : SetWorldSpeed(appWorld, s)
    \/ \E down \in BOOLEAN : KeyEvent(down)

SpecGate == InitGate /\ [][NextGate]_vars

(***************************************************************************)
(* Act dispatch of the active world w1 over a growing registry.            *)
(***************************************************************************)
OrderKinds == {"Solid", "Wall", "Player", "Coin"}
ActOrders == UNION {[1 .. n -> OrderKinds] : n \in 0 .. MaxOrderLen}

InitOrder ==
    /\ appWorld = "w1"
    /\ bounding = [w \in Worlds |-> TRUE]
    /\ objects = [w \in Worlds |-> [k \in Kinds |-> {}]]
    /\ pos = [a \in Actors |-> <<0, 0>>]
    /\ last = Call("init", None, None)
    /\ removed = [w \in Worlds |-> {}]
    /\ InitFrame

NextOrder ==
    \/ \E a \in Actors : AddToWorld(appWorld, a, 0, 0)
    \/ \E order \in ActOrders : SetActOrder(appWorld, order)
    \/ CalcFrame(appWorld)

SpecOrder == InitOrder /\ [][NextOrder]_vars

(***************************************************************************)
(* What an act() callback does besides returning, for the one acting       *)
(* object m of a frame that does something:                                *)
(*   raise          raises an exception                                    *)
(*   remove_self    world.remove_from_world(self)                          *)
(*   remove_other   removes another registered actor of its own kind       *)
(*                  (remove_from_world or remove_touching)                 *)
(*   add            world.add_to_world of an unregistered actor of its     *)
(*                  own kind                                               *)
(*   stop, quit     Application.stop(), Application.quit()                 *)
(*   screen_update  a method of an InitActor wrapped by _screen_update     *)
(*                  (set_position, move, ...): Application.update(False)   *)
(***************************************************************************)
Effects == {"none", "raise", "remove_self", "remove_other", "add", "stop",
            "quit", "screen_update"}
WorldEffects == {"none", "raise", "stop", "quit"}

\* the first index of m in the log L, 0 when m is not in it
FirstAt(L, m) ==
    IF \E i \in 1 .. Len(L) : L[i] = m
    THEN CHOOSE i \in 1 .. Len(L) : L[i] = m /\ \A j \in 1 .. i - 1 : L[j] # m
    ELSE 0

\* the log L with the entries ins put after every entry m
RECURSIVE After(_, _, _)
After(L, m, ins) ==
    IF L = <<>> THEN <<>>
    ELSE <<Head(L)>> \o (IF Head(L) = m THEN ins ELSE <<>>) \o After(Tail(L), m, ins)

(***************************************************************************)
(* Application.update(False), as _screen_update calls it in the middle of  *)
(* an act(): the event poll, a repaint if the gate is due, and, the        *)
(* application running, viewport, present and clock tick.                  *)
(***************************************************************************)
update_no_act(due, appRun) ==
    <<"poll">> \o (IF due THEN <<"repaint">> ELSE <<>>)
               \o (IF appRun THEN <<"viewport", "present", "tick">> ELSE <<>>)

(***************************************************************************)
(* World.__act_cycle when the act() of m has the effect e: the outcomes it *)
(* can have.  Each loop is "for game_object in self.__objects[kind]:       *)
(* game_object.act()", an iteration over the live set: once an act() has   *)
(* changed the size of the set under iteration, the iterator's next step   *)
(* raises RuntimeError (Set changed size during iteration), even when no   *)
(* element is left.  An exception of an act() is caught nowhere in the     *)
(* cycle.  nested is what an Application.update(False) made by m does.     *)
(*   log    the dispatch log, with what m's nested update did              *)
(*   objs   the registry afterwards                                        *)
(*   err    the exception that left the cycle, or "none"                   *)
(*   stop   whether Application.stop() was called                          *)
(*   quit   whether exit(0) was called                                     *)
(***************************************************************************)
\* the cycle going on after an act() has raised
act_cycle_with_swallow(order, objs, m, e, nested) ==
    {[log |-> L, objs |-> objs, err |-> "none", stop |-> FALSE, quit |-> FALSE] :
        L \in act_cycle(order, objs)}

act_cycle_with(order, objs, m, e, nested) ==
    LET Out(log, o, err, stop, quit) ==
            [log |-> log, objs |-> o, err |-> err, stop |-> stop, quit |-> quit]
        For(L) ==
            LET i == FirstAt(L, m)
                upTo == SubSeq(L, 1, i)
            IN IF i = 0 \/ e = "none"
               THEN {Out(L, objs, "none", FALSE, FALSE)}
               ELSE CASE e = "raise" ->
                           {Out(upTo, objs, "Exception", FALSE, FALSE)}
                      [] e = "quit" ->
                           {Out(upTo, objs, "none", TRUE, TRUE)}
                      [] e = "stop" ->
                           {Out(L, objs, "none", TRUE, FALSE)}
                      [] e = "screen_update" ->
                           {Out(After(L, m, nested), objs, "none", FALSE, FALSE)}
                      [] e = "remove_self" ->
                           {Out(upTo, [objs EXCEPT ![KindOf[m]] = @ \ {m}],
                                "RuntimeError", FALSE, FALSE)}
                      [] e = "remove_other" ->
                           {Out(upTo, [objs EXCEPT ![KindOf[m]] = @ \ {b}],
                                "RuntimeError", FALSE, FALSE) :
                               b \in objs[KindOf[m]] \ {m}}
                      [] e = "add" ->
                           {Out(upTo, [objs EXCEPT ![KindOf[m]] = @ \cup {c}],
                                "RuntimeError", FALSE, FALSE) :
                               c \in {c \in Actors : KindOf[c] = KindOf[m]}
                                        \ objs[KindOf[m]]}
    IN UNION {For(L) : L \in act_cycle(order, objs)}

(***************************************************************************)
(* Application.update() (act_cycle = True): __handle_events, where a QUIT  *)
(* event calls stop(); current_world._calc_frame(); return if the          *)
(* application no longer runs; else viewport and scrollbars, present       *)
(* (pygame.display.update) and the FPS clock's tick.  o is the outcome of  *)
(* the act cycle, should _calc_frame run one.                              *)
(*   trace       what the call did, in order                               *)
(*   appRunning  Application.__running afterwards                          *)
(*   err, quit   the exception that left the call; whether exit(0) did     *)
(***************************************************************************)
\* present and tick made even after a stop()
update_present_after_stop(quitEvent, appRun, isRunning, due, key, t, lastTime, o) ==
    LET f == calc_frame(isRunning, due, key, t, lastTime)
        failed == f.act /\ (o.err # "none" \/ o.quit)
    IN [trace      |-> <<"poll", "step">>
                       \o (IF f.act THEN o.log ELSE <<>>)
                       \o (IF f.paint /\ ~failed THEN <<"repaint">> ELSE <<>>)
                       \o (IF failed THEN <<>> ELSE <<"viewport", "present", "tick">>),
        appRunning |-> appRun /\ ~quitEvent /\ ~(f.act /\ o.stop),
        lastTime   |-> IF failed THEN lastTime ELSE f.lastTime,
        running    |-> f.running,
        acted      |-> f.act,
        painted    |-> f.paint /\ ~failed,
        err        |-> IF f.act THEN o.err ELSE "none",
        quit       |-> f.act /\ o.quit]

\* the events polled after the world step
update_poll_last(quitEvent, appRun, isRunning, due, key, t, lastTime, o) ==
    LET f == calc_frame(isRunning, due, key, t, lastTime)
        failed == f.act /\ (o.err # "none" \/ o.quit)
        run == appRun /\ ~quitEvent /\ ~(f.act /\ o.stop)
    IN [trace      |-> <<"step">>
                       \o (IF f.act THEN o.log ELSE <<>>)
                       \o (IF f.paint /\ ~failed THEN <<"repaint">> ELSE <<>>)
                       \o (IF failed THEN <<>> ELSE <<"poll">>)
                       \o (IF failed \/ ~run THEN <<>>
                           ELSE <<"viewport", "present", "tick">>),
        appRunning |-> run,
        lastTime   |-> IF failed THEN lastTime ELSE f.lastTime,
        running    |-> f.running,
        acted      |-> f.act,
        painted    |-> f.paint /\ ~failed,
        err        |-> IF f.act THEN o.err ELSE "none",
        quit       |-> f.act /\ o.quit]

update(quitEvent, appRun, isRunning, due, key, t, lastTime, o) ==
    LET f == calc_frame(isRunning, due, key, t, lastTime)
        failed == f.act /\ (o.err # "none" \/ o.quit)
        run == appRun /\ ~quitEvent /\ ~(f.act /\ o.stop)
    IN [trace      |-> <<"poll", "step">>
                       \o (IF f.act THEN o.log ELSE <<>>)
                       \o (IF f.paint /\ ~failed THEN <<"repaint">> ELSE <<>>)
                       \o (IF failed \/ ~run THEN <<>>
                           ELSE <<"viewport", "present", "tick">>),
        appRunning |-> run,
        lastTime   |-> IF failed THEN lastTime ELSE f.lastTime,
        running    |-> f.running,
        acted      |-> f.act,
        painted    |-> f.paint /\ ~failed,
        err        |-> IF f.act THEN o.err ELSE "none",
        quit       |-> f.act /\ o.quit]

(***************************************************************************)
(* One iteration of Application.main's loop: "while app.is_running():      *)
(* app.update()".  quitEvent: a QUIT event is in the queue; m, e: the      *)
(* object whose act() does something, and what.  An exception leaves main  *)
(* (it catches pygame.error only); exit(0) ends the process.               *)
(***************************************************************************)
Update(w, quitEvent, m, e) ==
    LET due == check_world_time(now, world_speed[w], last_time[w])
        f == calc_frame(running[w], due, keySpace, now, last_time[w])
        nested == update_no_act(due, appRunning /\ ~quitEvent)
        idle == [log |-> <<>>, objs |-> objects[w], err |-> "none",
                 stop |-> FALSE, quit |-> FALSE]
    IN /\ pc = "loop" /\ appRunning
       /\ w # None
       /\ m = "world" => e \in WorldEffects
       /\ \E o \in IF f.act
                   THEN act_cycle_with(act_order[w], objects[w], m, e, nested)
                   ELSE {idle} :
             LET r == update(quitEvent, appRunning, running[w], due, keySpace,
                             now, last_time[w], o)
             IN /\ frameLog' = r.trace
                /\ appRunning' = r.appRunning
                /\ last_time' = [last_time EXCEPT ![w] = r.lastTime]
                /\ running' = [running EXCEPT ![w] = r.running]
                /\ objects' = [objects EXCEPT ![w] = o.objs]
                /\ actLog' = o.log
                /\ frames' = <<[at |-> now, lastTime |-> last_time[w],
                                wasRunning |-> running[w],
                                acted |-> r.acted, painted |-> r.painted]>>
                /\ pc' = IF r.quit THEN "exited"
                         ELSE IF r.err # "none" THEN "raised" ELSE "loop"
                /\ last' = [Call("update", w, m) EXCEPT
                               !.kind = IF r.acted /\ FirstAt(o.log, m) > 0
                                        THEN e ELSE "none",
                               !.err = r.err,
                               !.read = quitEvent,
                               !.before = [v \in Worlds |-> Registered(v)]]
       /\ UNCHANGED <<appWorld, bounding, pos, removed, now, world_speed,
                      keySpace, act_order, viewVars>>

(***************************************************************************)
(* Application.main up to its loop: current_world = first_world(), then    *)
(* start(), which sets __running and polls the events once.                *)
(***************************************************************************)
Main(w, quitEvent) ==
    /\ pc = "idle"
    /\ appWorld' = w
    /\ appRunning' = ~quitEvent
    /\ pc' = "loop"
    /\ frameLog' = <<"poll">>
    /\ last' = [Call("main", w, None) EXCEPT !.read = quitEvent]
    /\ frames' = <<>> /\ actLog' = <<>>
    /\ UNCHANGED <<bounding, objects, pos, removed, worldVars, viewVars>>

(***************************************************************************)
(* Application.main after its loop: app.quit(), that is stop() and         *)
(* exit(0).                                                                *)
(***************************************************************************)
MainQuit ==
    /\ pc = "loop" /\ ~appRunning
    /\ pc' = "exited"
    /\ last' = Call("main: app.quit()", appWorld, None)
    /\ frames' = <<>> /\ actLog' = <<>>
    /\ UNCHANGED <<appWorld, bounding, objects, pos, removed, worldVars,
                   appRunning, frameLog, viewVars>>

(***************************************************************************)
(* Application.main on a world of two walls and a coin.                    *)
(***************************************************************************)
AppActors == {"a1", "a5", "a4"}
\* between two iterations of the loop the clock advances by 0.05 s
AppTicks == {5}

InitApp ==
    /\ appWorld = None
    /\ bounding = [w \in Worlds |-> TRUE]
    /\ objects \in {[w \in Worlds |-> [k \in Kinds |->
                       IF w = "w1" THEN {a \in S : KindOf[a] = k} ELSE {}]] :
                    S \in {{"a1", "a4"}, {"a1", "a5", "a4"}}}
    /\ pos = [a \in Actors |-> <<0, 0>>]
    /\ last = Call("init", None, None)
    /\ removed = [w \in Worlds |-> {}]
    /\ now = 0
    /\ last_time = [w \in Worlds |-> 0]
    /\ world_speed \in {[w \in Worlds |-> s] : s \in Speeds}
    /\ running = [w \in Worlds |-> TRUE]
    /\ keySpace = FALSE
    /\ act_order \in {[w \in Worlds |-> o] : o \in {<<>>, <<"Coin", "Wall">>}}
    /\ frames = <<>>
    /\ actLog = <<>>
    /\ appRunning = FALSE
    /\ pc = "idle"
    /\ frameLog = <<>>
    /\ InitView

NextApp ==
    \/ \E quitEvent \in BOOLEAN : Main("w1", quitEvent)
    \/ \E quitEvent \in BOOLEAN, m \in AppActors \cup {"world"}, e \in Effects :
          Update(appWorld, quitEvent, m, e)
    \/ MainQuit
    \/ \E d \in AppTicks : pc = "loop" /\ now + d <= MaxAppTime /\ Tick(d)

SpecApp == InitApp /\ [][NextApp]_vars

(***************************************************************************)
(* Pixel geometry.  Every world is constructed with cell_size CellSize;    *)
(* ImageSize is the width and height of each actor's image, in pixels.     *)
(***************************************************************************)
CellSize == 2
ImageSize == [a1 |-> 2, a2 |-> 2, a3 |-> 3, a4 |-> 1, a5 |-> 2]

\* pygame.Rect.colliderect for rectangles of positive size
colliderect(r1, r2) ==
    /\ r1.x < r2.x + r2.w /\ r2.x < r1.x + r1.w
    /\ r1.y < r2.y + r2.h /\ r2.y < r1.y + r1.h

\* Actor._rect, with an active world: the image at the actor's cell
rect(a) ==
    LET p == check_boundary(pos[a])
    IN [x |-> p[1] * CellSize, y |-> p[2] * CellSize,
        w |-> ImageSize[a], h |-> ImageSize[a]]

(***************************************************************************)
(* World.get_objects_at(x, y, type_) on the registry objs: for None, the   *)
(* query of each registered kind in turn; for a kind, the actors of        *)
(* __objects[type_] whose rectangle collides with the cell (x, y).         *)
(***************************************************************************)
get_objects_at(objs, x, y, type_) ==
    LET area == [x |-> x * CellSize, y |-> y * CellSize,
                 w |-> CellSize, h |-> CellSize]
        At(k) == {a \in objs[k] : colliderect(rect(a), area)}
    IN IF type_ = None
       THEN SetToBag(UNION {At(k) : k \in Kinds})
       ELSE SetToBag(At(type_))

\* the actors whose x and y a query reads, which runs __check_boundary
Clamped(touched) ==
    [b \in Actors |-> IF b \in touched THEN check_boundary(pos[b]) ELSE pos[b]]

(***************************************************************************)
(* Actor.get_actors_at_offset(dx, dy, type_): get_objects_at of the active *)
(* world at (self.x + dx, self.y + dy); ValueError without an active       *)
(* world.                                                                  *)
(***************************************************************************)
GetActorsAtOffset(a, dx, dy, type_) ==
    LET p == check_boundary(pos[a])
        objs == objects[get_world]
        call == [Call("get_actors_at_offset", get_world, a) EXCEPT
                    !.x = dx, !.y = dy, !.kind = type_]
    IN /\ IF get_world = None
          THEN /\ last' = [call EXCEPT !.err = "ValueError"]
               /\ pos' = pos
          ELSE /\ last' = [call EXCEPT
                              !.res = get_objects_at(objs, p[1] + dx, p[2] + dy, type_)]
               /\ pos' = Clamped({a} \cup (IF type_ = None THEN Registered(get_world)
                                          ELSE objs[type_]))
       /\ UNCHANGED <<appWorld, bounding, objects, removed, worldVars>>
       /\ NoFrame

(***************************************************************************)
(* Actor.get_actors_in_range(radius, type_): the actors b that             *)
(* get_actors(type_) of the active world yields, as often as it yields     *)
(* them, with (b.x - self.x)^2 + (b.y - self.y)^2 <= radius^2.             *)
(***************************************************************************)
get_actors_in_range(objs, a, radius, type_) ==
    LET actors == get_actors(objs, type_)
        me == check_boundary(pos[a])
        near == {b \in DOMAIN actors :
                    LET q == check_boundary(pos[b])
                        dx == q[1] - me[1]
                        dy == q[2] - me[2]
                    IN dx * dx + dy * dy <= radius * radius}
    IN [b \in near |-> actors[b]]

GetActorsInRange(a, radius, type_) ==
    LET objs == objects[get_world]
        call == [Call("get_actors_in_range", get_world, a) EXCEPT
                    !.n = radius, !.kind = type_]
    IN /\ IF get_world = None
          THEN /\ last' = [call EXCEPT !.err = "ValueError"]
               /\ pos' = pos
          ELSE /\ last' = [call EXCEPT
                              !.res = get_actors_in_range(objs, a, radius, type_)]
               /\ pos' = Clamped({a} \cup DOMAIN get_actors(objs, type_))
       /\ UNCHANGED <<appWorld, bounding, objects, removed, worldVars>>
       /\ NoFrame

(***************************************************************************)
(* Spatial queries: a wall and a golem added to the two worlds, w1 being   *)
(* the active one.                                                         *)
(***************************************************************************)
QueryActors == {"a1", "a3"}
QueryKinds == {None, "Solid", "Wall"}
QueryCells == 0 .. 1
Offsets == -1 .. 1

InitQuery ==
    /\ appWorld = "w1"
    /\ bounding = [w \in Worlds |-> TRUE]
    /\ objects = [w \in Worlds |-> [k \in Kinds |-> {}]]
    /\ pos = [a \in Actors |-> <<0, 0>>]
    /\ last = Call("init", None, None)
    /\ removed = [w \in Worlds |-> {}]
    /\ InitFrame

NextQuery ==
    \/ \E w \in Worlds, a \in QueryActors, x \in QueryCells, y \in QueryCells :
          AddToWorld(w, a, x, y)
    \/ \E a \in QueryActors, dx \in Offsets, dy \in Offsets, k \in QueryKinds :
          GetActorsAtOffset(a, dx, dy, k)
    \/ \E a \in QueryActors, r \in 0 .. MaxRadius, k \in QueryKinds :
          GetActorsInRange(a, r, k)

SpecQuery == InitQuery /\ [][NextQuery]_vars

(***************************************************************************)
(* Actor.get_neighbours(cells, diagonal, type_) on the registry objs of    *)
(* the active world: with diagonal, get_actors_in_range of                 *)
(* cells * cell_size; without, the actors b that get_actors(type_) yields, *)
(* as often as it yields them, with |b.x - self.x| <= cells or             *)
(* |b.y - self.y| <= cells.                                                *)
(***************************************************************************)
Abs(i) == IF i < 0 THEN -i ELSE i

\* the diagonal branch with the radius in cells
get_neighbours_radius_in_cells(objs, a, cells, diagonal, type_) ==
    IF diagonal
    THEN get_actors_in_range(objs, a, cells, type_)
    ELSE LET actors == get_actors(objs, type_)
             me == check_boundary(pos[a])
             near == {b \in DOMAIN actors :
                         LET q == check_boundary(pos[b])
                         IN Abs(q[1] - me[1]) <= cells \/ Abs(q[2] - me[2]) <= cells}
         IN [b \in near |-> actors[b]]

get_neighbours(objs, a, cells, diagonal, type_) ==
    IF diagonal
    THEN get_actors_in_range(objs, a, cells * CellSize, type_)
    ELSE LET actors == get_actors(objs, type_)
             me == check_boundary(pos[a])
             near == {b \in DOMAIN actors :
                         LET q == check_boundary(pos[b])
                         IN Abs(q[1] - me[1]) <= cells \/ Abs(q[2] - me[2]) <= cells}
         IN [b \in near |-> actors[b]]

GetNeighbours(a, cells, diagonal, type_) ==
    LET objs == objects[get_world]
    IN /\ get_world # None
       /\ last' = [Call("get_neighbours", get_world, a) EXCEPT
                      !.n = cells, !.flag = diagonal, !.kind = type_,
                      !.res = get_neighbours(objs, a, cells, diagonal, type_)]
       /\ pos' = Clamped({a} \cup DOMAIN get_actors(objs, type_))
       /\ UNCHANGED <<appWorld, bounding, objects, removed, worldVars>>
       /\ NoFrame

(***************************************************************************)
(* Actor.intersects(actor) and Actor.get_intersecting_actors(type_): the   *)
(* actors b that get_actors(type_) of the active world yields, as often as *)
(* it yields them, with b._rect.colliderect(self._rect).                   *)
(***************************************************************************)
intersects(a, b) == colliderect(rect(b), rect(a))

get_intersecting_actors(objs, a, type_) ==
    LET actors == get_actors(objs, type_)
        hit == {b \in DOMAIN actors : colliderect(rect(b), rect(a))}
    IN [b \in hit |-> actors[b]]

GetIntersectingActors(a, type_) ==
    LET objs == objects[get_world]
    IN /\ get_world # None
       /\ last' = [Call("get_intersecting_actors", get_world, a) EXCEPT
                      !.kind = type_,
                      !.res = get_intersecting_actors(objs, a, type_)]
       /\ pos' = Clamped({a} \cup DOMAIN get_actors(objs, type_))
       /\ UNCHANGED <<appWorld, bounding, objects, removed, worldVars>>
       /\ NoFrame

(***************************************************************************)
(* Actor.is_touching(type_): whether get_actors(type_) of the active world *)
(* yields an actor other than self that self intersects.                   *)
(***************************************************************************)
\* is_touching without the test for self
is_touching_self_included(objs, a, type_) ==
    \E b \in DOMAIN get_actors(objs, type_) : intersects(a, b)

is_touching(objs, a, type_) ==
    \E b \in DOMAIN get_actors(objs, type_) : b # a /\ intersects(a, b)

IsTouching(a, type_) ==
    LET objs == objects[get_world]
    IN /\ get_world # None
       /\ last' = [Call("is_touching", get_world, a) EXCEPT
                      !.kind = type_, !.ret = is_touching(objs, a, type_)]
       /\ pos' = Clamped({a} \cup DOMAIN get_actors(objs, type_))
       /\ UNCHANGED <<appWorld, bounding, objects, removed, worldVars>>
       /\ NoFrame

(***************************************************************************)
(* Actor.remove_touching(type_, fail_silently) on the registry objs of the *)
(* active world: the outcomes it can have.  The first actor other than     *)
(* self that the generator of get_actors(type_) yields and self intersects *)
(* is handed to remove_from_world; the generator goes through the kinds in *)
(* the order of _get_subclasses (any order for None and Actor) and through *)
(* each kind's set in any order.  Without such an actor: RuntimeError,     *)
(* unless fail_silently.                                                   *)
(*   objs   the registry afterwards                                        *)
(*   gone   the actor removed, or None                                     *)
(*   err    the exception raised, or "none"                                *)
(***************************************************************************)
\* the first actor other than self removed, touching or not
remove_touching_any(objs, a, type_, fail_silently) ==
    LET others == DOMAIN get_actors(objs, type_) \ {a}
    IN IF others = {}
       THEN {[objs |-> objs, gone |-> None,
              err |-> IF fail_silently THEN "none" ELSE "RuntimeError"]}
       ELSE {[objs |-> remove_from_world(objs, b).objs, gone |-> b,
              err |-> remove_from_world(objs, b).err] : b \in others}

remove_touching(objs, a, type_, fail_silently) ==
    LET Hit(k) == {b \in objs[k] : b # a /\ intersects(a, b)}
        bases == get_subclasses(type_)
        first == IF type_ = None \/ type_ = "Actor"
                 THEN UNION {Hit(k) : k \in Kinds}
                 ELSE IF \E i \in 1 .. Len(bases) : Hit(bases[i]) # {}
                      THEN Hit(bases[CHOOSE i \in 1 .. Len(bases) :
                                        /\ Hit(bases[i]) # {}
                                        /\ \A j \in 1 .. i - 1 : Hit(bases[j]) = {}])
                      ELSE {}
    IN IF first = {}
       THEN {[objs |-> objs, gone |-> None,
              err |-> IF fail_silently THEN "none" ELSE "RuntimeError"]}
       ELSE {[objs |-> remove_from_world(objs, b).objs, gone |-> b,
              err |-> remove_from_world(objs, b).err] : b \in first}

RemoveTouching(a, type_, fail_silently) ==
    LET objs == objects[get_world]
    IN /\ get_world # None
       /\ \E r \in remove_touching(objs, a, type_, fail_silently) :
             /\ objects' = [objects EXCEPT ![get_world] = r.objs]
             /\ last' = [Call("remove_touching", get_world, a) EXCEPT
                            !.kind = type_, !.flag = fail_silently,
                            !.err = r.err,
                            !.hooks = IF r.gone = None THEN 0 ELSE 1,
                            !.before = [v \in Worlds |-> Registered(v)]]
             /\ removed' = IF r.gone = None THEN removed
                           ELSE [removed EXCEPT ![get_world] = @ \cup {r.gone}]
       /\ pos' = Clamped({a} \cup DOMAIN get_actors(objs, type_))
       /\ UNCHANGED <<appWorld, bounding, worldVars>>
       /\ NoFrame

(***************************************************************************)
(* Neighbours and touching in the active world w1: a wall and a golem put  *)
(* on three of its cells, and a second wall put on its origin.             *)
(***************************************************************************)
TouchActors == {"a1", "a3", "a5"}
TouchKinds == {None, "Solid"}
TouchCells == {<<0, 0>>, <<1, 0>>, <<1, 1>>}

InitTouch ==
    /\ appWorld = "w1"
    /\ bounding = [w \in Worlds |-> TRUE]
    /\ objects = [w \in Worlds |-> [k \in Kinds |-> {}]]
    /\ pos = [a \in Actors |-> <<0, 0>>]
    /\ last = Call("init", None, None)
    /\ removed = [w \in Worlds |-> {}]
    /\ InitFrame

NextTouch ==
    \/ \E a \in {"a1", "a3"}, c \in TouchCells : AddToWorld(appWorld, a, c[1], c[2])
    \/ AddToWorld(appWorld, "a5", 0, 0)
    \/ \E a \in TouchActors, c \in 0 .. MaxCells, d \in BOOLEAN, k \in TouchKinds :
          GetNeighbours(a, c, d, k)
    \/ \E a \in TouchActors, k \in TouchKinds : GetIntersectingActors(a, k)
    \/ \E a \in TouchActors, k \in TouchKinds : IsTouching(a, k)
    \/ \E a \in TouchActors, k \in TouchKinds, f \in BOOLEAN : RemoveTouching(a, k, f)

SpecTouch == InitTouch /\ [][NextTouch]_vars

(***************************************************************************)
(* World.repaint(only_background) on a world whose background is set or    *)
(* not (bg), with paint order `order`, registry objs and overlay texts     *)
(* txts: the draw logs it can produce.  The first entry is "background"    *)
(* (the blit of the background image) or "fill" (canvas.fill); with        *)
(* only_background the call returns there.  Otherwise follow, for each     *)
(* entry of the paint order, the actors of that kind (Actor.repaint), then *)
(* those of the kinds in set(self.__objects) - done, then the texts.       *)
(***************************************************************************)
TextLabel == [c \in (0 .. MaxCoord) \X (0 .. MaxCoord) |->
                 IF c = <<0, 0>> THEN "text00" ELSE "text"]

\* the overlay texts blitted before the actors
repaint_texts_first(bg, only_background, order, objs, txts) ==
    LET first == IF bg THEN "background" ELSE "fill"
        RECURSIVE Listed(_)
        Listed(i) ==
            IF i > Len(order) THEN {<<>>}
            ELSE {p \o rest : p \in Orderings(objs[order[i]]), rest \in Listed(i + 1)}
        done == {order[i] : i \in 1 .. Len(order)}
        others == {k \in Kinds \ done : objs[k] # {}}
        RECURSIVE Each(_, _)
        Each(ks, i) ==
            IF i > Len(ks) THEN {<<>>}
            ELSE {p \o rest : p \in Orderings(objs[ks[i]]), rest \in Each(ks, i + 1)}
        Unlisted == UNION {Each(ks, 1) : ks \in Orderings(others)}
        Texts == {[i \in DOMAIN t |-> TextLabel[t[i]]] : t \in Orderings(txts)}
    IN IF only_background THEN {<<first>>}
       ELSE {<<first>> \o t \o l \o u : l \in Listed(1), u \in Unlisted, t \in Texts}

repaint(bg, only_background, order, objs, txts) ==
    LET first == IF bg THEN "background" ELSE "fill"
        RECURSIVE Listed(_)
        Listed(i) ==
            IF i > Len(order) THEN {<<>>}
            ELSE {p \o rest : p \in Orderings(objs[order[i]]), rest \in Listed(i + 1)}
        done == {order[i] : i \in 1 .. Len(order)}
        others == {k \in Kinds \ done : objs[k] # {}}
        RECURSIVE Each(_, _)
        Each(ks, i) ==
            IF i > Len(ks) THEN {<<>>}
            ELSE {p \o rest : p \in Orderings(objs[ks[i]]), rest \in Each(ks, i + 1)}
        Unlisted == UNION {Each(ks, 1) : ks \in Orderings(others)}
        Texts == {[i \in DOMAIN t |-> TextLabel[t[i]]] : t \in Orderings(txts)}
    IN IF only_background THEN {<<first>>}
       ELSE {<<first>> \o l \o u \o t : l \in Listed(1), u \in Unlisted, t \in Texts}

\* world.repaint(only_background)
Repaint(w, only_background) ==
    /\ w # None
    /\ \E log \in repaint(background[w], only_background, paint_order[w],
                          objects[w], texts[w]) :
           drawLog' = log
    /\ last' = [Call("repaint", w, None) EXCEPT !.flag = only_background]
    /\ frames' = <<>> /\ actLog' = <<>>
    /\ UNCHANGED <<appWorld, bounding, objects, pos, removed, worldVars, appVars,
                   paint_order, background, texts, scrollVars, cfgVars, initVars, iterVars>>

\* World.set_paint_order(*paint_order)
SetPaintOrder(w, order) ==
    /\ w # None
    /\ paint_order' = [paint_order EXCEPT ![w] = order]
    /\ last' = Call("set_paint_order", w, None)
    /\ frames' = <<>> /\ actLog' = <<>> /\ drawLog' = <<>>
    /\ UNCHANGED <<appWorld, bounding, objects, pos, removed, worldVars, appVars,
                   background, texts, scrollVars, cfgVars, initVars, iterVars>>

\* World.set_background(filename_or_image, scale_to_cell_size)
SetBackground(w) ==
    /\ w # None
    /\ background' = [background EXCEPT ![w] = TRUE]
    /\ last' = Call("set_background", w, None)
    /\ frames' = <<>> /\ actLog' = <<>> /\ drawLog' = <<>>
    /\ UNCHANGED <<appWorld, bounding, objects, pos, removed, worldVars, appVars,
                   paint_order, texts, scrollVars, cfgVars, initVars, iterVars>>

\* World.show_text(text, x, y): text = None removes the text of the cell
ShowText(w, isNone, x, y) ==
    /\ w # None
    /\ texts' = [texts EXCEPT ![w] = IF isNone THEN @ \ {<<x, y>>}
                                               ELSE @ \cup {<<x, y>>}]
    /\ last' = Call("show_text", w, None)
    /\ frames' = <<>> /\ actLog' = <<>> /\ drawLog' = <<>>
    /\ UNCHANGED <<appWorld, bounding, objects, pos, removed, worldVars, appVars,
                   paint_order, background, scrollVars, cfgVars, initVars, iterVars>>

(***************************************************************************)
(* Repaints of the active world w1 over a growing registry, with paint     *)
(* orders, a background and overlay texts set along the way.               *)
(***************************************************************************)
PaintActors == {"a1", "a2", "a4"}
PaintKinds == {"Wall", "Coin"}
PaintOrders == UNION {[1 .. n -> PaintKinds] : n \in 0 .. MaxOrderLen}
TextCells == {<<0, 0>>, <<1, 0>>}

InitPaint ==
    /\ appWorld = "w1"
    /\ bounding = [w \in Worlds |-> TRUE]
    /\ objects = [w \in Worlds |-> [k \in Kinds |-> {}]]
    /\ pos = [a \in Actors |-> <<0, 0>>]
    /\ last = Call("init", None, None)
    /\ removed = [w \in Worlds |-> {}]
    /\ InitFrame

NextPaint ==
    \/ \E a \in PaintActors : AddToWorld(appWorld, a, 0, 0)
    \/ \E order \in PaintOrders : SetPaintOrder(appWorld, order)
    \/ SetBackground(appWorld)
    \/ \E isNone \in BOOLEAN, c \in TextCells : ShowText(appWorld, isNone, c[1], c[2])
    \/ \E only_background \in BOOLEAN : Repaint(appWorld, only_background)

SpecPaint == InitPaint /\ [][NextPaint]_vars

(***************************************************************************)
(* The viewport of the application window over the canvas of the active    *)
(* world.  A viewport state st is a record of                              *)
(*   winSize     self.__size, also self.__screen.get_size()                *)
(*   maximized   self.__maximized                                          *)
(*   scrollbar   self.__scrollbar                                          *)
(*   thumb       <<self.__scrollbar_rects[0].x, self.__scrollbar_rects[1].y>> *)
(*   thumbLen    <<self.__scrollbar_rects[0].width,                        *)
(*                 self.__scrollbar_rects[1].height>>                      *)
(*   delta_move  self.__delta_move, each coordinate the fraction num / den *)
(*   mouse_down  self.__mouse_down                                         *)
(*   thumbOff    <<self.__scrollbar_rects[0].y, self.__scrollbar_rects[1].x>> *)
(* The horizontal thumb is the rectangle at (thumb[1], thumbOff[1]) of     *)
(* size thumbLen[1] x Thickness, the vertical one that at (thumbOff[2],    *)
(* thumb[2]) of size Thickness x thumbLen[2].                              *)
(* int(fraction * screen_width) is taken as the floor of the exact         *)
(* quotient and the pan -x / xmax * (canvas - screen_width) as the exact   *)
(* fraction; the rounding of the floating point operations is not          *)
(* modelled.                                                               *)
(***************************************************************************)
Thickness == 10

\* __make_scrollbar_x without the limit_value on the thumb position
make_scrollbar_x_unclamped(st, screen_width, force) ==
    IF ~(st.scrollbar[1] \/ force) THEN st
    ELSE IF screen_width >= Canvas[1] + screen_width THEN st
    ELSE LET width == (screen_width * screen_width) \div (Canvas[1] + screen_width)
             xmax == screen_width - width
             x == st.thumb[1]
         IN [st EXCEPT !.thumbOff[1] = st.winSize[2] - 3 - Thickness,
                       !.thumbLen[1] = width,
                       !.thumb[1] = x,
                       !.delta_move[1] = [num |-> (0 - x) * (Canvas[1] - screen_width),
                                          den |-> xmax]]

\* __make_scrollbar_x with the fraction screen_width / world_width
make_scrollbar_x_canvas_fraction(st, screen_width, force) ==
    IF ~(st.scrollbar[1] \/ force) THEN st
    ELSE IF screen_width >= Canvas[1] THEN st
    ELSE LET width == (screen_width * screen_width) \div Canvas[1]
             xmax == screen_width - width
             x == limit_value(st.thumb[1], 0, xmax)
         IN [st EXCEPT !.thumbOff[1] = st.winSize[2] - 3 - Thickness,
                       !.thumbLen[1] = width,
                       !.thumb[1] = x,
                       !.delta_move[1] = [num |-> (0 - x) * (Canvas[1] - screen_width),
                                          den |-> xmax]]

\* Application.__make_scrollbar_x(world_surface, screen_width, force)
make_scrollbar_x(st, screen_width, force) ==
    IF ~(st.scrollbar[1] \/ force) THEN st
    ELSE IF screen_width >= Canvas[1] + screen_width THEN st
    ELSE LET width == (screen_width * screen_width) \div (Canvas[1] + screen_width)
             xmax == screen_width - width
             x == limit_value(st.thumb[1], 0, xmax)
         IN [st EXCEPT !.thumbOff[1] = st.winSize[2] - 3 - Thickness,
                       !.thumbLen[1] = width,
                       !.thumb[1] = x,
                       !.delta_move[1] = [num |-> (0 - x) * (Canvas[1] - screen_width),
                                          den |-> xmax]]

\* Application.__make_scrollbar_y(world_surface, screen_height, force)
make_scrollbar_y(st, screen_height, force) ==
    IF ~(st.scrollbar[2] \/ force) THEN st
    ELSE IF screen_height >= Canvas[2] + screen_height THEN st
    ELSE LET height == (screen_height * screen_height) \div (Canvas[2] + screen_height)
             ymax == screen_height - height
             y == limit_value(st.thumb[2], 0, ymax)
         IN [st EXCEPT !.thumbOff[2] = st.winSize[1] - 3 - Thickness,
                       !.thumbLen[2] = height,
                       !.thumb[2] = y,
                       !.delta_move[2] = [num |-> (0 - y) * (Canvas[2] - screen_height),
                                          den |-> ymax]]

\* Application.__make_scrollbars()
make_scrollbars(st) ==
    make_scrollbar_y(make_scrollbar_x(st, st.winSize[1], FALSE), st.winSize[2], FALSE)

(***************************************************************************)
(* Application.__calc_scrollbars(), with a current world: the flags from   *)
(* the window and canvas sizes; then, while maximized, for each axis that  *)
(* needs no scrollbar, its thumb position set to 0 and a forced call of    *)
(* __make_scrollbar_x (for the vertical axis too, and with the height).    *)
(***************************************************************************)
calc_scrollbars(st) ==
    LET s1 == [st EXCEPT !.scrollbar = <<st.winSize[1] < Canvas[1],
                                         st.winSize[2] < Canvas[2]>>]
        s2 == IF s1.scrollbar[1] THEN s1
              ELSE make_scrollbar_x([s1 EXCEPT !.thumb[1] = 0], s1.winSize[1], TRUE)
        s3 == IF s2.scrollbar[2] THEN s2
              ELSE make_scrollbar_x([s2 EXCEPT !.thumb[2] = 0], s2.winSize[2], TRUE)
    IN IF st.maximized THEN s3 ELSE s1

(***************************************************************************)
(* One event of Application.__handle_events.  An event e is a record of    *)
(* type, size (WINDOWSIZECHANGED: event.x, event.y), pos (MOUSEBUTTONDOWN  *)
(* of button 1: event.pos) and rel (MOUSEMOTION: event.rel).  ACTIVEEVENT  *)
(* stands for one with gain = 0, the window losing the focus.              *)
(***************************************************************************)
Event(type, size, p, rel) == [type |-> type, size |-> size, pos |-> p, rel |-> rel]

\* pygame.Rect(x, y, w, h).collidepoint(p)
collidepoint(x, y, w, h, p) ==
    /\ x <= p[1] /\ p[1] < x + w
    /\ y <= p[2] /\ p[2] < y + h

\* __handle_events with MOUSEMOTION moving the horizontal thumb with no drag on
handle_event_motion_always(st, e) ==
    CASE e.type = "MOUSEBUTTONDOWN" ->
             IF collidepoint(st.thumb[1], st.thumbOff[1], st.thumbLen[1], Thickness, e.pos)
             THEN [st EXCEPT !.mouse_down = "0"]
             ELSE IF collidepoint(st.thumbOff[2], st.thumb[2], Thickness, st.thumbLen[2],
                                  e.pos)
             THEN [st EXCEPT !.mouse_down = "1"]
             ELSE st
      [] e.type = "MOUSEMOTION" ->
             IF st.mouse_down = "1" THEN [st EXCEPT !.thumb[2] = @ + e.rel[2]]
             ELSE [st EXCEPT !.thumb[1] = @ + e.rel[1]]
      [] e.type = "MOUSEBUTTONUP" -> [st EXCEPT !.mouse_down = None]
      [] e.type = "ACTIVEEVENT" -> [st EXCEPT !.mouse_down = None]
      [] e.type = "WINDOWSIZECHANGED" -> calc_scrollbars([st EXCEPT !.winSize = e.size])
      [] e.type = "WINDOWMAXIMIZED" -> calc_scrollbars([st EXCEPT !.maximized = TRUE])
      [] e.type = "WINDOWMINIMIZED" -> [st EXCEPT !.maximized = FALSE]
      [] OTHER -> st

handle_event(st, e) ==
    CASE e.type = "MOUSEBUTTONDOWN" ->
             IF collidepoint(st.thumb[1], st.thumbOff[1], st.thumbLen[1], Thickness, e.pos)
             THEN [st EXCEPT !.mouse_down = "0"]
             ELSE IF collidepoint(st.thumbOff[2], st.thumb[2], Thickness, st.thumbLen[2],
                                  e.pos)
             THEN [st EXCEPT !.mouse_down = "1"]
             ELSE st
      [] e.type = "MOUSEMOTION" ->
             IF st.mouse_down = "0" THEN [st EXCEPT !.thumb[1] = @ + e.rel[1]]
             ELSE IF st.mouse_down = "1" THEN [st EXCEPT !.thumb[2] = @ + e.rel[2]]
             ELSE st
      [] e.type = "MOUSEBUTTONUP" -> [st EXCEPT !.mouse_down = None]
      [] e.type = "ACTIVEEVENT" -> [st EXCEPT !.mouse_down = None]
      [] e.type = "WINDOWSIZECHANGED" -> calc_scrollbars([st EXCEPT !.winSize = e.size])
      [] e.type = "WINDOWMAXIMIZED" -> calc_scrollbars([st EXCEPT !.maximized = TRUE])
      [] e.type = "WINDOWMINIMIZED" -> [st EXCEPT !.maximized = FALSE]
      [] OTHER -> st

\* Application.move_world with the thumbs kept on their tracks on return
move_world_clamped(st, delta_x, delta_y) ==
    [st EXCEPT !.thumb = <<limit_value(st.thumb[1] + delta_x, 0,
                                       st.winSize[1] - st.thumbLen[1]),
                           limit_value(st.thumb[2] + delta_y, 0,
                                       st.winSize[2] - st.thumbLen[2])>>]

\* Application.move_world(delta_x, delta_y)
move_world(st, delta_x, delta_y) ==
    [st EXCEPT !.thumb = <<st.thumb[1] + delta_x, st.thumb[2] + delta_y>>]

\* Application.set_world_position(x, y)
set_world_position(st, x, y) ==
    [st EXCEPT !.thumb = <<x, y>>]

(***************************************************************************)
(* A call c an act() callback of the frame makes on the application: a     *)
(* record of op ("none" for no call) and arg.                              *)
(***************************************************************************)
user_call(st, c) ==
    CASE c.op = "move_world" -> move_world(st, c.arg[1], c.arg[2])
      [] c.op = "set_world_position" -> set_world_position(st, c.arg[1], c.arg[2])
      [] OTHER -> st

(***************************************************************************)
(* Application.update() of a running application, as far as the viewport   *)
(* goes: __handle_events() with the pending event e, the world's step with *)
(* the call c made from an act() callback, then __make_scrollbars().  The  *)
(* history records the event type, the call and the thumb positions and    *)
(* lengths at the return of the call.                                      *)
(***************************************************************************)
UpdateView(e, c) ==
    LET st == [winSize |-> winSize, maximized |-> maximized, scrollbar |-> scrollbar,
               thumb |-> thumb, thumbLen |-> thumbLen, delta_move |-> delta_move,
               mouse_down |-> mouse_down, thumbOff |-> thumbOff]
        handled == handle_event(st, e)
        called == user_call(handled, c)
        made == make_scrollbars(called)
    IN /\ appWorld # None
       /\ \A i \in 1 .. 2 : called.thumb[i] \in (0 - MaxThumb) .. MaxThumb
       /\ winSize' = made.winSize
       /\ maximized' = made.maximized
       /\ scrollbar' = made.scrollbar
       /\ thumb' = made.thumb
       /\ thumbLen' = made.thumbLen
       /\ delta_move' = made.delta_move
       /\ mouse_down' = made.mouse_down
       /\ thumbOff' = made.thumbOff
       /\ last' = [Call("update", appWorld, None) EXCEPT
                      !.ev = e.type, !.kind = c.op, !.arg = c.arg,
                      !.x = called.thumb[1], !.y = called.thumb[2],
                      !.len = called.thumbLen, !.pos = e.pos, !.rel = e.rel]
       /\ frames' = <<>> /\ actLog' = <<>>
       /\ UNCHANGED <<appWorld, bounding, objects, pos, removed, worldVars, appVars,
                      paintVars, cfgVars, initVars, iterVars>>

(***************************************************************************)
(* Frames of an application whose window the user resizes, maximizes and   *)
(* minimizes and whose thumbs the user drags, with callbacks that pan: a   *)
(* frame with one pending event, or one with a panning callback.           *)
(***************************************************************************)
WinSizes == {<<800, 600>>, <<800, 2400>>, <<2400, 2400>>}
Drags == {<<600, 600>>}
Presses == {<<10, 590>>, <<790, 10>>, <<400, 300>>}
Events ==
    {Event(t, <<0, 0>>, <<0, 0>>, <<0, 0>>) :
        t \in {"none", "MOUSEBUTTONUP", "ACTIVEEVENT", "WINDOWMAXIMIZED",
               "WINDOWMINIMIZED"}}
    \cup {Event("WINDOWSIZECHANGED", size, <<0, 0>>, <<0, 0>>) : size \in WinSizes}
    \cup {Event("MOUSEBUTTONDOWN", <<0, 0>>, p, <<0, 0>>) : p \in Presses}
    \cup {Event("MOUSEMOTION", <<0, 0>>, <<0, 0>>, rel) : rel \in Drags}
UserCalls ==
    {[op |-> "none", arg |-> <<0, 0>>],
     [op |-> "move_world", arg |-> <<-100, 600>>],
     [op |-> "set_world_position", arg |-> <<0, 0>>]}

InitViewport ==
    /\ appWorld = "w1"
    /\ bounding = [w \in Worlds |-> TRUE]
    /\ objects = [w \in Worlds |-> [k \in Kinds |-> {}]]
    /\ pos = [a \in Actors |-> <<0, 0>>]
    /\ last = Call("init", None, None)
    /\ removed = [w \in Worlds |-> {}]
    /\ InitFrame

NoEvent == Event("none", <<0, 0>>, <<0, 0>>, <<0, 0>>)
NoCall == [op |-> "none", arg |-> <<0, 0>>]

NextViewport ==
    \/ \E e \in Events : UpdateView(e, NoCall)
    \/ \E c \in UserCalls : UpdateView(NoEvent, c)

SpecView == InitViewport /\ [][NextViewport]_vars

(***************************************************************************)
(* The configuration file pygreenfoot.config.  A line is a sequence of     *)
(* tokens, "=" being the delimiter and "#" the comment mark; a value text  *)
(* is one token.  Optional values are sequences: <<>> for None, <<v>> for  *)
(* v.                                                                      *)
(***************************************************************************)
Ok(v) == [exc |-> "none", v |-> <<v>>]
Raise(exc) == [exc |-> exc, v |-> <<>>]

\* the texts int() and float() accept, with their values
Numerals == {"30", "0", "-5"}
NumeralValue(t) == CASE t = "30" -> 30 [] t = "0" -> 0 [] t = "-5" -> 0 - 5

\* str.lower() and str.upper() on the texts of the model
Lower(t) == CASE t = "True" -> "true" [] t = "FIXED" -> "fixed" [] OTHER -> t
Upper(t) == CASE t = "fixed" -> "FIXED" [] t = "true" -> "TRUE"
              [] t = "True" -> "TRUE" [] t = "none" -> "NONE" [] t = "abc" -> "ABC"
              [] OTHER -> t

\* bool_(value)
bool_(value) ==
    IF Lower(value) = "true" THEN Ok(TRUE)
    ELSE IF Lower(value) = "false" THEN Ok(FALSE)
    ELSE Raise("TypeError")

\* signed_int(value): int(value), TypeError if negative
signed_int(value) ==
    IF value \notin Numerals THEN Raise("ValueError")
    ELSE IF NumeralValue(value) < 0 THEN Raise("TypeError")
    ELSE Ok(NumeralValue(value))

\* signed_float(value): float(value), TypeError if negative
signed_float(value) ==
    IF value \notin Numerals THEN Raise("ValueError")
    ELSE IF NumeralValue(value) < 0 THEN Raise("TypeError")
    ELSE Ok(NumeralValue(value))

\* none_value(value)
none_value(value) == Lower(value) \in {"none", "null", "unset"}

\* optional_signed_int(value)
optional_signed_int(value) ==
    IF none_value(value) THEN Ok(<<>>)
    ELSE LET r == signed_int(value)
         IN IF r.exc = "none" THEN Ok(r.v) ELSE r

\* window_mode(value): _pygame_screen_modes[value.upper()]
ScreenModes == {"RESIZABLE", "FULLSCREEN", "BORDERLESS", "FIXED"}
window_mode(value) ==
    IF Upper(value) \in ScreenModes THEN Ok(Upper(value)) ELSE Raise("KeyError")

\* _config_key_converter.get(key, _unknown_key)(attr)
config_key_converter(key, attr) ==
    CASE key = "fpsLimit" -> signed_int(attr)
      [] key = "defaultWorldSpeed" -> signed_float(attr)
      [] key = "windowWidth" -> optional_signed_int(attr)
      [] key = "windowMode" -> window_mode(attr)
      [] key = "vsync" -> bool_(attr)
      [] OTHER -> Raise("TypeError")

\* line.split("="): the runs of tokens between the delimiters
RECURSIVE split(_)
split(line) ==
    IF \A i \in DOMAIN line : line[i] # "=" THEN <<line>>
    ELSE LET at == CHOOSE i \in DOMAIN line :
                       line[i] = "=" /\ \A j \in 1 .. i - 1 : line[j] # "="
         IN <<SubSeq(line, 1, at - 1)>> \o split(SubSeq(line, at + 1, Len(line)))

(***************************************************************************)
(* The body of the loop of Application.read_config for one line, with the  *)
(* dictionary parsed so far: the dictionary after the line, whether the    *)
(* line was reported (a WARNING or ERROR print) and the exception that     *)
(* leaves the loop, if any.                                                *)
(***************************************************************************)
read_line(prs, line) ==
    IF line # <<>> /\ line[1] = "#"
    THEN [parsed |-> prs, reported |-> FALSE, exc |-> "none"]
    ELSE IF \A i \in DOMAIN line : line[i] # "="
    THEN [parsed |-> prs, reported |-> TRUE, exc |-> "none"]
    ELSE LET parts == split(line)
         IN IF Len(parts) # 2
            THEN [parsed |-> prs, reported |-> FALSE, exc |-> "ValueError"]
            ELSE LET key == parts[1][1]
                     r == config_key_converter(key, parts[2][1])
                 IN IF r.exc = "TypeError"
                    THEN [parsed |-> prs, reported |-> TRUE, exc |-> "none"]
                    ELSE IF r.exc # "none"
                    THEN [parsed |-> prs, reported |-> FALSE, exc |-> r.exc]
                    ELSE [parsed |-> [k \in DOMAIN prs \cup {key} |->
                                         IF k = key THEN r.v[1] ELSE prs[k]],
                          reported |-> FALSE, exc |-> "none"]

\* the actions of this section leave everything but the setup state alone
SetupOnly ==
    /\ frames' = <<>> /\ actLog' = <<>>
    /\ UNCHANGED <<bounding, objects, pos, removed, worldVars, frameLog, paintVars,
                   scrollVars, initVars, iterVars>>

\* Application.read_config up to its loop: the file is opened
OpenConfig ==
    /\ cfgPc = "idle"
    /\ cfgPc' = "reading"
    /\ parsed' = <<>>
    /\ lineNo' = 0
    /\ last' = Call("read_config: open", None, None)
    /\ SetupOnly
    /\ UNCHANGED <<appWorld, appRunning, pc, fps_limit, config, reported>>

\* Application.read_config with no readable file: returns at once
NoConfig ==
    /\ cfgPc = "idle"
    /\ cfgPc' = "read"
    /\ last' = Call("read_config: no file", None, None)
    /\ SetupOnly
    /\ UNCHANGED <<appWorld, appRunning, pc, fps_limit, config, parsed, lineNo,
                   reported>>

\* one iteration of the loop of Application.read_config
ReadLine(line) ==
    /\ cfgPc = "reading"
    /\ lineNo < MaxLines
    /\ LET r == read_line(parsed, line)
       IN /\ parsed' = r.parsed
          /\ reported' = reported + (IF r.reported THEN 1 ELSE 0)
          /\ cfgPc' = IF r.exc # "none" THEN "raised" ELSE "reading"
          /\ last' = [Call("read_config: line", None, None) EXCEPT
                         !.err = r.exc, !.flag = r.reported,
                         !.kind = IF Len(line) >= 1 THEN line[1] ELSE None,
                         !.hookArg = IF Len(line) >= 3 THEN line[3] ELSE None,
                         !.n = Len(line)]
    /\ lineNo' = lineNo + 1
    /\ SetupOnly
    /\ UNCHANGED <<appWorld, appRunning, pc, fps_limit, config>>

\* Application.read_config after its loop: self.__config.update(parsed)
EndOfConfig ==
    /\ cfgPc = "reading"
    /\ cfgPc' = "read"
    /\ config' = [k \in ConfigKeys |-> IF k \in DOMAIN parsed THEN parsed[k]
                                        ELSE config[k]]
    /\ last' = Call("read_config: update", None, None)
    /\ SetupOnly
    /\ UNCHANGED <<appWorld, appRunning, pc, fps_limit, parsed, lineNo, reported>>

\* Application.apply_config()
ApplyConfig ==
    /\ cfgPc = "read"
    /\ cfgPc' = "applied"
    /\ fps_limit' = config["fpsLimit"]
    /\ last' = Call("apply_config", None, None)
    /\ SetupOnly
    /\ UNCHANGED <<appWorld, appRunning, pc, config, parsed, lineNo, reported>>

\* Application.fps = fps (the setter), on the limit cur
set_fps(cur, fps) ==
    IF fps <= 0 THEN [fps |-> cur, err |-> "ValueError"]
    ELSE [fps |-> fps, err |-> "none"]

\* app.fps = fps, also PyGreenfoot.set_game_frames(fps)
SetFps(fps) ==
    /\ cfgPc # "raised"
    /\ LET r == set_fps(fps_limit, fps)
       IN /\ fps_limit' = r.fps
          /\ last' = [Call("fps", None, None) EXCEPT !.n = fps, !.err = r.err]
    /\ SetupOnly
    /\ UNCHANGED <<appWorld, appRunning, pc, config, parsed, lineNo, reported, cfgPc>>

\* the current_world setter accepting whatever it is given
set_current_world_unchecked(cur, world) == [world |-> world, err |-> "none"]

\* Application.current_world = world (the setter), on the current world cur
set_current_world(cur, world) ==
    IF world = None THEN [world |-> cur, err |-> "RuntimeError"]
    ELSE IF world \notin Worlds THEN [world |-> cur, err |-> "RuntimeError"]
    ELSE [world |-> world, err |-> "none"]

\* app.current_world = world, for any object
AssignWorld(world) ==
    /\ cfgPc # "raised"
    /\ LET r == set_current_world(appWorld, world)
       IN /\ appWorld' = r.world
          /\ last' = [Call("current_world", world, None) EXCEPT !.err = r.err]
    /\ SetupOnly
    /\ UNCHANGED <<appRunning, pc, fps_limit, config, parsed, lineNo, reported, cfgPc>>

\* Application.start(), with the current world and __running
start(world, isRunning) ==
    IF world = None THEN [running |-> isRunning, err |-> "RuntimeError"]
    ELSE [running |-> TRUE, err |-> "none"]

\* app.start()
Start ==
    /\ cfgPc # "raised"
    /\ LET r == start(appWorld, appRunning)
       IN /\ appRunning' = r.running
          /\ last' = [Call("start", appWorld, None) EXCEPT !.err = r.err]
    /\ SetupOnly
    /\ UNCHANGED <<appWorld, pc, fps_limit, config, parsed, lineNo, reported, cfgPc>>

(***************************************************************************)
(* The setup of an application: the configuration file read line by line   *)
(* and applied, the frame limit and the active world assigned, start().    *)
(***************************************************************************)
FileKeys == ConfigKeys \cup {"bogus"}
ValueTexts == {"30", "0", "-5", "abc", "True", "fixed", "none"}
Lines ==
    {<<k, "=", t>> : k \in FileKeys, t \in ValueTexts}
    \cup {<<"#", "fpsLimit", "=", "abc">>, <<"fpsLimit">>, <<>>,
          <<"fpsLimit", "=", "30", "=", "30">>}
FpsValues == {-1, 0, 30}

InitSetup ==
    /\ appWorld = None
    /\ bounding = [w \in Worlds |-> TRUE]
    /\ objects = [w \in Worlds |-> [k \in Kinds |-> {}]]
    /\ pos = [a \in Actors |-> <<0, 0>>]
    /\ last = Call("init", None, None)
    /\ removed = [w \in Worlds |-> {}]
    /\ InitFrame

NextSetup ==
    \/ OpenConfig
    \/ NoConfig
    \/ \E line \in Lines : ReadLine(line)
    \/ EndOfConfig
    \/ ApplyConfig
    \/ \E fps \in FpsValues : SetFps(fps)
    \/ \E world \in Worlds \cup NonActors \cup {None} : AssignWorld(world)
    \/ Start

SpecSetup == InitSetup /\ [][NextSetup]_vars

(***************************************************************************)
(* InitActor.act() on the counter it of the actor (self.__iter), where the *)
(* init() of the subclass, if it is invoked, raises or returns: the        *)
(* counter after the call, whether init() was invoked, and the exception   *)
(* that leaves act().                                                      *)
(***************************************************************************)
\* act() invoking init() whenever the counter is at least 1
init_actor_act_every_time(it, initRaises) ==
    IF it >= 1 /\ initRaises
    THEN [iter |-> it, invoked |-> TRUE, err |-> "Exception"]
    ELSE [iter |-> IF it <= 2 THEN it + 1 ELSE it, invoked |-> it >= 1, err |-> "none"]

init_actor_act(it, initRaises) ==
    IF it = 1 /\ initRaises
    THEN [iter |-> it, invoked |-> TRUE, err |-> "Exception"]
    ELSE [iter |-> IF it <= 2 THEN it + 1 ELSE it, invoked |-> it = 1, err |-> "none"]

\* a.act() for an InitActor a, called by a frame or by the program itself
InitActorAct(a, initRaises) ==
    /\ actCalls[a] < MaxActs
    /\ LET r == init_actor_act(iter[a], initRaises)
       IN /\ iter' = [iter EXCEPT ![a] = r.iter]
          /\ initCalls' = [initCalls EXCEPT ![a] = @ + (IF r.invoked THEN 1 ELSE 0)]
          /\ initRaised' = [initRaised EXCEPT ![a] =
                               @ + (IF r.err # "none" THEN 1 ELSE 0)]
          /\ last' = [Call("InitActor.act", None, a) EXCEPT
                         !.err = r.err, !.flag = r.invoked]
    /\ actCalls' = [actCalls EXCEPT ![a] = @ + 1]
    /\ frames' = <<>> /\ actLog' = <<>>
    /\ UNCHANGED <<appWorld, bounding, objects, pos, removed, worldVars, appVars,
                   paintVars, scrollVars, cfgVars, iterVars>>

(***************************************************************************)
(* act() calls on three InitActor instances, in any interleaving.          *)
(***************************************************************************)
InitInit ==
    /\ appWorld = "w1"
    /\ bounding = [w \in Worlds |-> TRUE]
    /\ objects = [w \in Worlds |-> [k \in Kinds |-> {}]]
    /\ pos = [a \in Actors |-> <<0, 0>>]
    /\ last = Call("init", None, None)
    /\ removed = [w \in Worlds |-> {}]
    /\ InitFrame

NextInit ==
    \E a \in InitActors, initRaises \in BOOLEAN : InitActorAct(a, initRaises)

SpecInit == InitInit /\ [][NextInit]_vars

(***************************************************************************)
(* The list-returning queries: list(generator) runs the generator to its   *)
(* end at the call and returns the actors it yielded as a list, in the     *)
(* order of the walk over the sets (any order).  ListsOf(bag) are the      *)
(* lists that can come of a generator yielding the bag.                    *)
(***************************************************************************)
SeqToBag(s) ==
    [e \in {s[i] : i \in DOMAIN s} |-> Cardinality({i \in DOMAIN s : s[i] = e})]

ListsOf(bag) ==
    {s \in [1 .. BagCardinality(bag) -> BagToSet(bag)] : SeqToBag(s) = bag}

\* the next element of a list that follows the registry instead of the call
list_next_live(list, at, objs, type_) ==
    LET now_ == CHOOSE s \in ListsOf(get_actors(objs, type_)) : TRUE
    IN IF Len(now_) # Len(list) THEN [item |-> None, err |-> "RuntimeError"]
       ELSE [item |-> now_[at + 1], err |-> "none"]

\* the next element of the for loop over the returned list, at elements in,
\* with the registry as it is now
list_next(list, at, objs, type_) == [item |-> list[at + 1], err |-> "none"]

\* held = world.get_actors(type_), the start of a for loop over held
GetActorsList(w, type_) ==
    /\ w # None
    /\ held' \in ListsOf(get_actors(objects[w], type_))
    /\ cursor' = 0
    /\ yielded' = <<>>
    /\ last' = [Call("get_actors: list", w, None) EXCEPT !.kind = type_]
    /\ frames' = <<>> /\ actLog' = <<>>
    /\ UNCHANGED <<appWorld, bounding, objects, pos, removed, worldVars, appVars,
                   paintVars, scrollVars, cfgVars, initVars>>

\* held = a.get_intersecting_actors(type_), the start of a for loop over held
GetIntersectingActorsList(a, type_) ==
    /\ get_world # None
    /\ held' \in ListsOf(get_intersecting_actors(objects[get_world], a, type_))
    /\ cursor' = 0
    /\ yielded' = <<>>
    /\ last' = [Call("get_intersecting_actors: list", get_world, a) EXCEPT
                   !.kind = type_]
    /\ pos' = Clamped({a} \cup DOMAIN get_actors(objects[get_world], type_))
    /\ frames' = <<>> /\ actLog' = <<>>
    /\ UNCHANGED <<appWorld, bounding, objects, removed, worldVars, appVars,
                   paintVars, scrollVars, cfgVars, initVars>>

\* one more round of the for loop over held; its body may change the registry
ListNext ==
    /\ last.op # "init"
    /\ cursor < Len(held)
    /\ LET r == list_next(held, cursor, objects[appWorld], None)
       IN /\ yielded' = IF r.err = "none" THEN Append(yielded, r.item) ELSE yielded
          /\ last' = [Call("list: next", appWorld, None) EXCEPT !.err = r.err]
    /\ cursor' = cursor + 1
    /\ frames' = <<>> /\ actLog' = <<>>
    /\ UNCHANGED <<appWorld, bounding, objects, pos, removed, worldVars, appVars,
                   paintVars, scrollVars, cfgVars, initVars, held>>

(***************************************************************************)
(* For loops over returned lists in the active world w1, with actors added *)
(* and removed while they run.                                             *)
(***************************************************************************)
IterActors == {"a1", "a3", "a4"}
IterKinds == {None, "Solid"}

InitIter ==
    /\ appWorld = "w1"
    /\ bounding = [w \in Worlds |-> TRUE]
    /\ objects = [w \in Worlds |-> [k \in Kinds |-> {}]]
    /\ pos = [a \in Actors |-> <<0, 0>>]
    /\ last = Call("init", None, None)
    /\ removed = [w \in Worlds |-> {}]
    /\ InitFrame

NextIter ==
    \/ \E a \in IterActors : AddToWorld(appWorld, a, 0, 0)
    \/ \E a \in IterActors : RemoveFromWorld(appWorld, a)
    \/ \E k \in IterKinds : GetActorsList(appWorld, k)
    \/ \E k \in IterKinds : GetIntersectingActorsList("a1", k)
    \/ ListNext

SpecIter == InitIter /\ [][NextIter]_vars

(***************************************************************************)
(* What the claims are stated with.                                        *)
(***************************************************************************)
\* the worlds an actor is registered in
Home(a) == {w \in Worlds : a \in Registered(w)}

InWorld(p, w) == 0 <= p[1] /\ p[1] < Width[w] /\ 0 <= p[2] /\ p[2] < Height[w]

Min(i, j) == IF i < j THEN i ELSE j
Max(i, j) == IF i > j THEN i ELSE j

PositionWrites == {"add_to_world", "set_position", "x.setter", "y.setter", "move"}

\* K and every direct or transitive subkind of K, as a set
RECURSIVE Closure(_)
Closure(S) ==
    LET next == S \cup UNION {{DirectSubclasses[k][i] :
                                 i \in 1 .. Len(DirectSubclasses[k])} : k \in S}
    IN IF next = S THEN S ELSE Closure(next)
SubkindsOf(K) == IF K = None THEN Kinds ELSE Closure({K})

(***************************************************************************)
(* C1 (as claimed): after a position write (add_to_world, set_position,    *)
(* the x or y setter, move), an actor registered in one world, a world     *)
(* with world_bounding = true, has its stored position inside that world:  *)
(* 0 <= x < width and 0 <= y < height, right after the write.              *)
(***************************************************************************)
C1_WorldBoundingClaim ==
    (last.op \in PositionWrites /\ ~last.read) =>
        \A w \in Worlds :
            (Home(last.a) = {w} /\ bounding[w]) => InWorld(pos[last.a], w)

(***************************************************************************)
(* C2 (as claimed): after add_to_world(actor, x, y) or set_position(x, y)  *)
(* on an actor of a world with world_bounding = true, reading actor.x and  *)
(* actor.y gives (min(max(x, 0), width - 1), min(max(y, 0), height - 1)).  *)
(***************************************************************************)
C2_ClampedReadBackClaim ==
    (last.op \in {"add_to_world", "set_position"} /\ last.read) =>
        \A w \in Worlds :
            (Home(last.a) = {w} /\ bounding[w]) =>
                /\ last.rx = Min(Max(last.x, 0), Width[w] - 1)
                /\ last.ry = Min(Max(last.y, 0), Height[w] - 1)

(***************************************************************************)
(* C8 (as claimed): get_actors(K) returns exactly the registered actors    *)
(* whose kind is K or a direct or transitive subkind of K, each of them    *)
(* once; get_actors(None) returns every registered actor.                  *)
(***************************************************************************)
C8_PolymorphicQueryClaim ==
    last.op = "get_actors" =>
        last.res = SetToBag({a \in Registered(last.w) :
                                KindOf[a] \in SubkindsOf(last.kind)})

(***************************************************************************)
(* C9 (as claimed): a second remove_from_world(actor), after the call      *)
(* that unregistered the actor, invokes no on_world_remove hook, so that   *)
(* the two calls invoke it once in total.                                  *)
(***************************************************************************)
C9_RemoveTwiceClaim ==
    (/\ last.op = "remove_from_world"
     /\ last.a \in removed[last.w]
     /\ last.a \notin last.before[last.w]) => last.hooks = 0

(***************************************************************************)
(* C10: remove_from_world(actor) of an actor registered in the world       *)
(* invokes on_world_remove once, while the actor is still registered, and  *)
(* raises nothing; afterwards no get_actors query of that world returns    *)
(* the actor, number_of_actors is one less, and every other registration,  *)
(* in this world and in the others, is as it was.                          *)
(***************************************************************************)
C10_RemoveRegistered ==
    (last.op = "remove_from_world" /\ last.a \in last.before[last.w]) =>
        /\ last.hooks = 1
        /\ last.hookReg
        /\ last.err = "none"
        /\ \A K \in Kinds \cup {None} :
              CopiesIn(last.a, get_actors(objects[last.w], K)) = 0
        /\ number_of_actors(last.w) = last.n - 1
        /\ Registered(last.w) = last.before[last.w] \ {last.a}
        /\ \A v \in Worlds \ {last.w} : Registered(v) = last.before[v]

\* an actor removed from a world that held other actors too
C10_Witness ==
    /\ last.op = "remove_from_world"
    /\ last.a \in last.before[last.w]
    /\ Cardinality(last.before[last.w]) >= 2
    /\ \E v \in Worlds \ {last.w} : last.before[v] # {}

(***************************************************************************)
(* The _calc_frame call just made: its world and its record, and the two   *)
(* calls before it in the window.                                          *)
(***************************************************************************)
Stepped == last.op = "_calc_frame"
F  == frames[Len(frames)]
F1 == frames[1]
F2 == frames[2]
F3 == frames[3]

\* where the entries of the act order before entry i end in a dispatch log
RECURSIVE SegmentStart(_, _, _)
SegmentStart(order, objs, i) ==
    IF i = 1 THEN 1
    ELSE SegmentStart(order, objs, i - 1) + Cardinality(objs[order[i - 1]])

(***************************************************************************)
(* C3: in an executed frame the world's act() is dispatched first; then,   *)
(* entry by entry of act_order, all actors of the entry's kind (and only   *)
(* those, in some order); then the actors of the kinds act_order does not  *)
(* list, after every listed kind.                                          *)
(***************************************************************************)
C3_ActOrder ==
    (Stepped /\ F.acted) =>
        LET order == act_order[last.w]
            objs == objects[last.w]
            n == Len(order)
            listed == {order[i] : i \in 1 .. n}
            unlisted == {a \in Registered(last.w) : KindOf[a] \notin listed}
            tail == SegmentStart(order, objs, n + 1)
        IN /\ Len(actLog) >= 1 /\ actLog[1] = "world"
           /\ \A p \in 2 .. Len(actLog) : actLog[p] # "world"
           /\ \A i \in 1 .. n :
                 LET from == SegmentStart(order, objs, i)
                     size == Cardinality(objs[order[i]])
                 IN /\ from + size <= Len(actLog)
                    /\ {actLog[p] : p \in from + 1 .. from + size} = objs[order[i]]
           /\ Len(actLog) = tail + Cardinality(unlisted)
           /\ {actLog[p] : p \in tail + 1 .. Len(actLog)} = unlisted

\* Scenario B: act_order = [Wall, Player] over walls, a player and others
C3_Witness ==
    /\ Stepped /\ F.acted
    /\ act_order[last.w] = <<"Wall", "Player">>
    /\ Registered(last.w) = Actors

(***************************************************************************)
(* C4: a _calc_frame call on a RUNNING world runs the act cycle and the    *)
(* repaint if and only if the clock has advanced by at least world_speed   *)
(* since __last_time; otherwise it dispatches no act(), repaints nothing   *)
(* and leaves __last_time as it was.                                       *)
(***************************************************************************)
C4_TimestepGate ==
    (Stepped /\ F.wasRunning) =>
        LET isDue == now - F.lastTime >= world_speed[last.w]
        IN /\ F.acted <=> isDue
           /\ F.painted <=> isDue
           /\ (actLog # <<>>) <=> isDue
           /\ ~isDue => last_time[last.w] = F.lastTime

\* a call on a running world, some time after the last frame but too early
C4_Witness ==
    /\ Stepped /\ F.wasRunning
    /\ now > F.lastTime
    /\ now - F.lastTime < world_speed[last.w]

(***************************************************************************)
(* Scenario C: world_speed is 10 ticks (0.1 s); a first call executes at   *)
(* t0, a second call is made at t0 + 5 and a third at t0 + 6.              *)
(***************************************************************************)
ScenarioC(third) ==
    /\ Stepped /\ Len(frames) = 3
    /\ world_speed[last.w] = 10
    /\ F1.acted /\ F2.wasRunning /\ F3.wasRunning
    /\ F2.at = F1.at + 5
    /\ F3.at = F1.at + third

(***************************************************************************)
(* C5 (as claimed): in Scenario C the second call performs no act and no   *)
(* paint, and the third call, 6 ticks after the first, executes act and    *)
(* paint.                                                                  *)
(***************************************************************************)
C5_ScenarioCClaim ==
    ScenarioC(6) => /\ ~F2.acted /\ ~F2.painted
                    /\ F3.acted /\ F3.painted

(***************************************************************************)
(* C5 (amended): in Scenario C neither the second call nor the third call  *)
(* 6 ticks after the first performs an act or a paint, and __last_time     *)
(* stays t0; a third call 6 ticks after the second (t0 + 11) executes act  *)
(* and paint.                                                              *)
(***************************************************************************)
C5_ScenarioC ==
    /\ ScenarioC(6) => /\ ~F2.acted /\ ~F2.painted
                       /\ ~F3.acted /\ ~F3.painted
                       /\ actLog = <<>>
                       /\ last_time[last.w] = F1.at
    /\ ScenarioC(11) => /\ ~F2.acted /\ ~F2.painted
                        /\ F3.acted /\ F3.painted
                        /\ last_time[last.w] = F3.at

C5_Witness == ScenarioC(6)

(***************************************************************************)
(* C6: a _calc_frame call on a PAUSED world dispatches no act() and does   *)
(* not repaint; no step of the framework turns running from true to false  *)
(* (only the caller's assignment does); and running turns from false to    *)
(* true only in a _calc_frame call of that world made while the space key  *)
(* is pressed.                                                             *)
(***************************************************************************)
C6_PauseStateMachine ==
    /\ []((Stepped /\ ~F.wasRunning) =>
             (~F.acted /\ ~F.painted /\ actLog = <<>>))
    /\ [][\A w \in Worlds :
             (running[w] /\ ~running'[w]) =>
                 (last'.op = "running = False" /\ last'.w = w)]_vars
    /\ [][\A w \in Worlds :
             (~running[w] /\ running'[w]) =>
                 (last'.op = "_calc_frame" /\ last'.w = w /\ keySpace)]_vars

\* a paused world resumed by a call
C6_Witness == Stepped /\ ~F.wasRunning /\ running[last.w]

(***************************************************************************)
(* C7 (as claimed): the _calc_frame call in which a PAUSED world observes  *)
(* the space key makes the world RUNNING and, the gate being due, runs     *)
(* the act cycle and the repaint in that same call.                        *)
(***************************************************************************)
C7_ResumeFallsThroughClaim ==
    (/\ Stepped /\ ~F.wasRunning /\ keySpace
     /\ now - F.lastTime >= world_speed[last.w]) =>
        (running[last.w] /\ F.acted /\ F.painted)

(***************************************************************************)
(* C7 (amended): the _calc_frame call in which a PAUSED world observes the *)
(* space key makes the world RUNNING and does nothing else: no act cycle,  *)
(* no repaint, __last_time unchanged, whether or not the gate is due.  The *)
(* act cycle and the repaint run in the next call whose gate is due.       *)
(***************************************************************************)
C7_ResumeNextFrame ==
    /\ (Stepped /\ ~F.wasRunning /\ keySpace) =>
          /\ running[last.w]
          /\ ~F.acted /\ ~F.painted /\ actLog = <<>>
          /\ last_time[last.w] = F.lastTime
    /\ (/\ Stepped /\ Len(frames) >= 2
        /\ ~frames[Len(frames) - 1].wasRunning /\ keySpace
        /\ now - F.lastTime >= world_speed[last.w]) =>
          (F.wasRunning /\ F.acted /\ F.painted)

\* a paused world that observes the key while its gate is due
C7_Witness ==
    /\ Stepped /\ ~F.wasRunning /\ keySpace
    /\ now - F.lastTime >= world_speed[last.w]
    /\ world_speed[last.w] > 0

(***************************************************************************)
(* C11: add_to_world(obj, x, y) with obj no Actor instance raises          *)
(* TypeError and changes nothing: the registry of every world, every       *)
(* number_of_actors and every stored position are as before, and no        *)
(* on_world_add hook is invoked.                                           *)
(***************************************************************************)
C11_AddRejectsNonActors ==
    [][(last'.op = "add_to_world" /\ last'.a \notin Actors) =>
          /\ last'.err = "TypeError"
          /\ last'.hooks = 0
          /\ objects' = objects
          /\ \A w \in Worlds : number_of_actors(w)' = number_of_actors(w)
          /\ pos' = pos]_vars

\* a non-actor handed to a world that holds actors
C11_Witness ==
    /\ last.op = "add_to_world" /\ last.a \in NonActors
    /\ Registered(last.w) # {}

(***************************************************************************)
(* C12: a successful add_to_world(actor, x, y) invokes on_world_add once,  *)
(* with that world, after the actor was registered under its concrete kind *)
(* and after set_position stored its position (clamped by the boundary     *)
(* check to the active bounding world, if there is one): the hook finds    *)
(* the actor registered and at the position it has when the call returns.  *)
(***************************************************************************)
C12_AddOrdering ==
    (last.op = "add_to_world" /\ last.err = "none" /\ ~last.read) =>
        /\ last.hooks = 1
        /\ last.hookArg = last.w
        /\ last.hookReg
        /\ last.a \in objects[last.w][KindOf[last.a]]
        /\ last.hookPos = pos[last.a]
        /\ last.hookPos =
              IF appWorld # None /\ bounding[appWorld]
              THEN <<Min(Max(last.x, 0), Width[appWorld] - 1),
                     Min(Max(last.y, 0), Height[appWorld] - 1)>>
              ELSE <<last.x, last.y>>

\* an add at a position the boundary check of the actor's world moves
C12_Witness ==
    /\ last.op = "add_to_world" /\ last.err = "none" /\ ~last.read
    /\ appWorld = last.w /\ bounding[last.w]
    /\ last.hookPos # <<last.x, last.y>>

(***************************************************************************)
(* C13 (as claimed): each actor is registered in at most one world.        *)
(***************************************************************************)
C13_SingleOwnershipClaim ==
    \A a \in Actors : Cardinality(Home(a)) <= 1


(***************************************************************************)
(* The Application.update call just made: what its frame did.              *)
(***************************************************************************)
Updated == last.op = "update"
InFrameLog(x) == \E i \in 1 .. Len(frameLog) : frameLog[i] = x
Times(L, x) == Cardinality({i \in 1 .. Len(L) : L[i] = x})
ActEntries == Actors \cup {"world"}
Mutations == {"remove_self", "remove_other", "add"}

(***************************************************************************)
(* C14 (as claimed): when an actor's act() removes itself or another actor *)
(* of its kind, or adds an actor of its kind, while that kind is being     *)
(* dispatched, the act cycle raises nothing, and every actor registered    *)
(* before and after the frame has acted exactly once in it.                *)
(***************************************************************************)
C14_MutationGuardedClaim ==
    (Updated /\ last.kind \in Mutations) =>
        /\ last.err = "none"
        /\ \A a \in Registered(last.w) \cap last.before[last.w] :
              Times(actLog, a) = 1

(***************************************************************************)
(* C15: an exception raised by the world's act() or by an actor's act()    *)
(* leaves the act cycle, _calc_frame, Application.update and the loop of   *)
(* Application.main; nothing acts after the act() that raised, the frame   *)
(* is not repainted nor presented, and __last_time is not updated.         *)
(***************************************************************************)
C15_CallbackErrorsFatal ==
    (Updated /\ last.kind = "raise") =>
        /\ last.err = "Exception"
        /\ pc = "raised"
        /\ Times(actLog, last.a) = 1
        /\ actLog[Len(actLog)] = last.a
        /\ \A x \in {"repaint", "viewport", "present", "tick"} : ~InFrameLog(x)
        /\ ~F.painted
        /\ last_time[last.w] = F.lastTime

\* an act() that raises while other actors have not acted yet
C15_Witness ==
    /\ Updated /\ last.kind = "raise" /\ last.a \in Actors
    /\ Len(actLog) < 1 + Cardinality(Registered(last.w))

(***************************************************************************)
(* A frame during which stop() was called, by a QUIT event of the poll or  *)
(* by an act(), and which no exception and no exit(0) cut short.           *)
(***************************************************************************)
StoppedInFrame ==
    /\ Updated /\ last.err = "none" /\ pc # "exited"
    /\ last.read \/ last.kind = "stop"

(***************************************************************************)
(* C16 (as claimed): a frame during which stop() is called runs to         *)
(* completion: act dispatch and repaint, if the gate is due, then          *)
(* viewport and present.                                                   *)
(***************************************************************************)
C16_FrameCompletesClaim ==
    StoppedInFrame =>
        /\ F.acted => F.painted
        /\ InFrameLog("viewport") /\ InFrameLog("present")

(***************************************************************************)
(* C16 (amended): __running is consulted at the top of each iteration of   *)
(* the loop and once more inside Application.update, after the world step. *)
(* A frame during which stop() is called completes its world step (every   *)
(* registered actor acts, the world is repainted and __last_time is set,   *)
(* if the gate is due) and then returns without viewport, present and      *)
(* clock tick; no further frame is started afterwards.                     *)
(***************************************************************************)
C16_StopEndsFrameAfterStep ==
    /\ [](StoppedInFrame =>
            /\ ~appRunning
            /\ frameLog[1] = "poll"
            /\ F.acted =>
                  /\ \A x \in Registered(last.w) \cup {"world"} : Times(actLog, x) >= 1
                  /\ F.painted /\ frameLog[Len(frameLog)] = "repaint"
                  /\ last_time[last.w] = F.at
            /\ \A x \in {"viewport", "present", "tick"} : ~InFrameLog(x))
    /\ [][~appRunning => last'.op # "update"]_vars

\* stop() called by an act() after which other actors are still to act
C16_Witness ==
    /\ StoppedInFrame /\ last.kind = "stop" /\ F.acted
    /\ last.a \in Actors
    /\ actLog[Len(actLog)] # last.a

(***************************************************************************)
(* C17 (as claimed): the process is terminated by an explicit quit() of    *)
(* the user's code only; after a stop() the loop of Application.main ends  *)
(* without exit(0).                                                        *)
(***************************************************************************)
C17_StopKeepsProcessClaim ==
    pc = "exited" => (Updated /\ last.kind = "quit")

(***************************************************************************)
(* What Application.update(False) adds to the frame's log when an act()    *)
(* of an InitActor calls it; the part of the frame's log between the       *)
(* start of the world step and its end.                                    *)
(***************************************************************************)
ScreenUpdate == <<"poll", "repaint", "viewport", "present", "tick">>
FullFrame == Updated /\ ~last.read /\ last.kind \in {"none", "screen_update"}
Tail3 == SubSeq(frameLog, Len(frameLog) - 2, Len(frameLog))
Dispatch == SubSeq(frameLog, 3, Len(frameLog) - (IF F.acted THEN 4 ELSE 3))

(***************************************************************************)
(* C18 (as claimed): a frame polls the input events once, first, then runs *)
(* the world step, then viewport, present and clock tick, once each; from  *)
(* the world step's start to its repaint there are only act() calls.       *)
(***************************************************************************)
C18_FrameOrderClaim ==
    FullFrame =>
        /\ frameLog[1] = "poll" /\ frameLog[2] = "step"
        /\ Times(frameLog, "poll") = 1 /\ Times(frameLog, "present") = 1
        /\ Tail3 = <<"viewport", "present", "tick">>
        /\ F.acted => frameLog[Len(frameLog) - 3] = "repaint"
        /\ \A i \in 1 .. Len(Dispatch) : Dispatch[i] \in ActEntries

(***************************************************************************)
(* C18 (amended): a frame polls the input events first, then runs the      *)
(* world step (gate, act dispatch, repaint), then viewport, present and    *)
(* clock tick.  From the world step's start to its repaint there are only  *)
(* act() calls, except that each call of an InitActor's screen-updating    *)
(* method inside its act() runs Application.update(False) on the spot:     *)
(* another event poll, a repaint, viewport, present and clock tick, before *)
(* the next actor acts.                                                    *)
(***************************************************************************)
C18_FrameOrder ==
    FullFrame =>
        /\ frameLog[1] = "poll" /\ frameLog[2] = "step"
        /\ Tail3 = <<"viewport", "present", "tick">>
        /\ F.acted => frameLog[Len(frameLog) - 3] = "repaint"
        /\ ~F.acted => Dispatch = <<>>
        /\ last.kind = "none" =>
              /\ Times(frameLog, "poll") = 1 /\ Times(frameLog, "present") = 1
              /\ \A i \in 1 .. Len(Dispatch) : Dispatch[i] \in ActEntries
        /\ last.kind = "screen_update" =>
              /\ \A i \in 1 .. Len(Dispatch) :
                    \/ Dispatch[i] \in ActEntries
                    \/ \E j \in 2 .. i :
                          /\ i < j + 5
                          /\ Dispatch[j - 1] = last.a
                          /\ SubSeq(Dispatch, j, j + 4) = ScreenUpdate
              /\ \A i \in 1 .. Len(Dispatch) :
                    Dispatch[i] = last.a =>
                        SubSeq(Dispatch, i + 1, i + 5) = ScreenUpdate
              /\ Times(frameLog, "poll") = 1 + Times(Dispatch, last.a)

\* an InitActor updating the screen before the last actor has acted
C18_Witness ==
    /\ FullFrame /\ last.kind = "screen_update" /\ F.acted
    /\ Dispatch[Len(Dispatch)] \in Actors


(***************************************************************************)
(* The pixels of an actor's image and of a cell, per axis, and the actors  *)
(* of kind K or a subkind of K registered in the world of actor a.         *)
(***************************************************************************)
ImagePixels(b, axis) ==
    pos[b][axis] * CellSize .. pos[b][axis] * CellSize + ImageSize[b] - 1
CellPixels(c) == c * CellSize .. c * CellSize + CellSize - 1
OfKind(w, K) == {b \in Registered(w) : KindOf[b] \in SubkindsOf(K)}

(***************************************************************************)
(* C19 (as claimed): get_actors_at_offset(dx, dy, K) on an actor a         *)
(* registered in one world returns exactly the actors registered in that   *)
(* world whose kind is K or a subkind of K (any kind for None) and whose   *)
(* image shares a pixel with the cell (a.x + dx, a.y + dy).                *)
(***************************************************************************)
C19_OffsetQueryClaim ==
    (last.op = "get_actors_at_offset") =>
        \A w \in Worlds :
            Home(last.a) = {w} =>
                last.res = SetToBag(
                    {b \in OfKind(w, last.kind) :
                        /\ ImagePixels(b, 1) \cap CellPixels(pos[last.a][1] + last.x) # {}
                        /\ ImagePixels(b, 2) \cap CellPixels(pos[last.a][2] + last.y) # {}})

(***************************************************************************)
(* C20 (as claimed): get_actors_in_range(r, K) on an actor a registered    *)
(* in one world returns exactly the actors b registered in that world,     *)
(* of kind K or a subkind of K, with                                       *)
(* (b.x - a.x)^2 + (b.y - a.y)^2 <= r^2; a itself is among them when its   *)
(* kind matches.                                                           *)
(***************************************************************************)
C20_RadiusQueryClaim ==
    (last.op = "get_actors_in_range") =>
        \A w \in Worlds :
            Home(last.a) = {w} =>
                /\ last.res = SetToBag(
                      {b \in OfKind(w, last.kind) :
                          (pos[b][1] - pos[last.a][1]) * (pos[b][1] - pos[last.a][1])
                          + (pos[b][2] - pos[last.a][2]) * (pos[b][2] - pos[last.a][2])
                             <= last.n * last.n})
                /\ last.a \in OfKind(w, last.kind) => BagIn(last.a, last.res)


(***************************************************************************)
(* Whether the images of two actors share a pixel; the actors of kind K or *)
(* a subkind of K among the set S.                                         *)
(***************************************************************************)
Overlap(a, b) ==
    /\ ImagePixels(a, 1) \cap ImagePixels(b, 1) # {}
    /\ ImagePixels(a, 2) \cap ImagePixels(b, 2) # {}
KindIn(S, K) == {b \in S : KindOf[b] \in SubkindsOf(K)}

(***************************************************************************)
(* C21 (as claimed): get_neighbours(cells, False, K) on actor a returns    *)
(* exactly the registered actors b of kind K (or a subkind) with           *)
(* |b.x - a.x| <= cells or |b.y - a.y| <= cells, each of them once.        *)
(***************************************************************************)
C21_NeighboursOrClaim ==
    (last.op = "get_neighbours" /\ ~last.flag) =>
        last.res = SetToBag(
            {b \in OfKind(last.w, last.kind) :
                \/ Abs(pos[b][1] - pos[last.a][1]) <= last.n
                \/ Abs(pos[b][2] - pos[last.a][2]) <= last.n})

C23_IntersectionQueryClaim ==
    (last.op = "get_intersecting_actors") =>
        last.res = SetToBag({b \in OfKind(last.w, last.kind) : Overlap(last.a, b)})

(***************************************************************************)
(* C24: is_touching(K) on actor a is true exactly when a registered actor  *)
(* other than a, of kind K or a subkind, has an image rectangle            *)
(* overlapping a's; an actor alone in the world touches nothing.           *)
(***************************************************************************)
C24_IsTouching ==
    (last.op = "is_touching") =>
        /\ last.ret <=> \E b \in OfKind(last.w, last.kind) \ {last.a} :
                           Overlap(last.a, b)
        /\ Registered(last.w) = {last.a} => ~last.ret

\* an actor of the kind asked for, with company it does not touch
C24_Witness ==
    /\ last.op = "is_touching" /\ ~last.ret
    /\ last.a \in OfKind(last.w, last.kind)
    /\ Cardinality(Registered(last.w)) >= 2

C26_RepaintOrder ==
    (last.op = "repaint") =>
        LET order == paint_order[last.w]
            objs == objects[last.w]
            n == Len(order)
            listed == {order[i] : i \in 1 .. n}
            unlisted == {a \in Registered(last.w) : KindOf[a] \notin listed}
            labels == {TextLabel[c] : c \in texts[last.w]}
            tail == SegmentStart(order, objs, n + 1)
            textsFrom == tail + Cardinality(unlisted)
        IN /\ Len(drawLog) >= 1
           /\ drawLog[1] = (IF background[last.w] THEN "background" ELSE "fill")
           /\ \A p \in 2 .. Len(drawLog) : drawLog[p] \notin {"background", "fill"}
           /\ last.flag => Len(drawLog) = 1
           /\ ~last.flag =>
                 /\ \A i \in 1 .. n :
                       LET from == SegmentStart(order, objs, i)
                           size == Cardinality(objs[order[i]])
                       IN /\ from + size <= Len(drawLog)
                          /\ {drawLog[p] : p \in from + 1 .. from + size}
                                = objs[order[i]]
                 /\ textsFrom <= Len(drawLog)
                 /\ {drawLog[p] : p \in tail + 1 .. textsFrom} = unlisted
                 /\ Len(drawLog) = textsFrom + Cardinality(texts[last.w])
                 /\ {drawLog[p] : p \in textsFrom + 1 .. Len(drawLog)} = labels

\* a full repaint over a background, listed and unlisted kinds and two texts
C26_Witness ==
    /\ last.op = "repaint" /\ ~last.flag
    /\ background[last.w]
    /\ paint_order[last.w] = <<"Coin", "Wall">>
    /\ Registered(last.w) = PaintActors
    /\ texts[last.w] = TextCells

\* an Application.update() call has just returned, its viewport part done
ViewUpdated == last.op = "update" /\ last.ev # None

Hidden(i) == IF Canvas[i] > winSize[i] THEN Canvas[i] - winSize[i] ELSE 0

(***************************************************************************)
(* C27: after every update(), whatever resizes, maximizes, minimizes,      *)
(* thumb drags, move_world and set_world_position calls came before, the   *)
(* pan offset of each axis lies between -max(0, canvas - window) and 0, so *)
(* it is 0 on an axis whose window is at least as large as the canvas.     *)
(***************************************************************************)
C27_PanOffsetClaim ==
    ViewUpdated =>
        \A i \in 1 .. 2 :
            /\ (0 - Hidden(i)) * delta_move[i].den <= delta_move[i].num
            /\ delta_move[i].num <= 0

(***************************************************************************)
(* C28: with a 2000 x 2000 canvas in an 800 x 600 window both axes need a  *)
(* scrollbar; after update(), on an axis that needs a scrollbar, the pan   *)
(* offset is -thumb / (track - thumb length) * (canvas - window), the      *)
(* thumb lies on its track, so that thumb 0 gives offset 0, the thumb at   *)
(* the far limit gives exactly -(canvas - window), and no drag gives more. *)
(***************************************************************************)
C28_PanMapping ==
    ViewUpdated =>
        /\ winSize = FirstWindow => scrollbar = <<TRUE, TRUE>>
        /\ \A i \in 1 .. 2 :
              scrollbar[i] =>
                  LET far == winSize[i] - thumbLen[i]
                      o == delta_move[i]
                  IN /\ far > 0 /\ o.den > 0
                     /\ o.num * far = (0 - thumb[i]) * (Canvas[i] - winSize[i]) * o.den
                     /\ thumb[i] \in 0 .. far
                     /\ thumb[i] = 0 => o.num = 0
                     /\ thumb[i] = far => o.num = (0 - (Canvas[i] - winSize[i])) * o.den
                     /\ o.num >= (0 - (Canvas[i] - winSize[i])) * o.den

\* Scenario D: the horizontal thumb dragged past the right end of its track
C28_Witness ==
    /\ ViewUpdated /\ last.ev = "MOUSEMOTION"
    /\ winSize = FirstWindow
    /\ last.x > winSize[1] - thumbLen[1]
    /\ thumb[1] = winSize[1] - thumbLen[1]
    /\ delta_move[1].num = (0 - 1200) * delta_move[1].den

(***************************************************************************)
(* C29: after update(), on each axis whose window is smaller than the      *)
(* canvas, the thumb length is floor(window * window / (canvas + window))  *)
(* of that axis, for the vertical axis as for the horizontal one, and it   *)
(* is smaller than the window.                                             *)
(***************************************************************************)
C29_ThumbLength ==
    ViewUpdated =>
        \A i \in 1 .. 2 :
            winSize[i] < Canvas[i] =>
                /\ thumbLen[i] = (winSize[i] * winSize[i]) \div (Canvas[i] + winSize[i])
                /\ thumbLen[i] < winSize[i]

\* the 800 x 600 window: thumbs of 228 and 138 pixels
C29_Witness ==
    /\ ViewUpdated
    /\ winSize = FirstWindow
    /\ thumbLen = <<228, 138>>

C31_SnapBackClaim ==
    (ViewUpdated /\ last.ev = "WINDOWMAXIMIZED" /\ last.kind = "none") =>
        \A i \in 1 .. 2 :
            ~scrollbar[i] => (thumb[i] = 0 /\ delta_move[i].num = 0)

(***************************************************************************)
(* C32: a drag of a thumb begins only with a press of the primary button   *)
(* inside the rectangle of that thumb; mouse motion moves a thumb only     *)
(* while its drag is on, by the motion along its own axis, and never the   *)
(* other thumb; button-up and the window losing the focus end the drag,    *)
(* and motion with no drag on moves nothing.                               *)
(***************************************************************************)
C32_DragProtocol ==
    [][(last'.op = "update" /\ last'.ev # None /\ last'.kind = "none") =>
          LET at == <<last'.x, last'.y>>
              inX == /\ thumb[1] <= last'.pos[1]
                     /\ last'.pos[1] < thumb[1] + thumbLen[1]
                     /\ thumbOff[1] <= last'.pos[2]
                     /\ last'.pos[2] < thumbOff[1] + Thickness
              inY == /\ thumbOff[2] <= last'.pos[1]
                     /\ last'.pos[1] < thumbOff[2] + Thickness
                     /\ thumb[2] <= last'.pos[2]
                     /\ last'.pos[2] < thumb[2] + thumbLen[2]
          IN /\ (mouse_down' = "0" /\ mouse_down # "0") =>
                    (last'.ev = "MOUSEBUTTONDOWN" /\ inX)
             /\ (mouse_down' = "1" /\ mouse_down # "1") =>
                    (last'.ev = "MOUSEBUTTONDOWN" /\ inY)
             /\ last'.ev = "MOUSEMOTION" =>
                    /\ mouse_down' = mouse_down
                    /\ at[1] = thumb[1] + (IF mouse_down = "0" THEN last'.rel[1] ELSE 0)
                    /\ at[2] = thumb[2] + (IF mouse_down = "1" THEN last'.rel[2] ELSE 0)
             /\ last'.ev \in {"MOUSEBUTTONUP", "ACTIVEEVENT"} =>
                    (mouse_down' = None /\ at = thumb)
             /\ last'.ev = "MOUSEBUTTONDOWN" => at = thumb]_vars

\* the vertical thumb dragged down its track, the horizontal one at rest
C32_Witness ==
    /\ ViewUpdated /\ last.ev = "MOUSEMOTION"
    /\ mouse_down = "1"
    /\ last.y = 600 /\ thumb[2] = winSize[2] - thumbLen[2]
    /\ last.x = 0 /\ thumb[1] = 0

(***************************************************************************)
(* C33: assigning None, or an object that is no World, to current_world    *)
(* raises RuntimeError and leaves the active world as it was, while a      *)
(* World becomes the active world; start() with no world assigned raises   *)
(* RuntimeError and leaves the application not running.                    *)
(***************************************************************************)
C33_WorldAssignmentValidated ==
    [][/\ last'.op = "current_world" =>
              IF last'.w \in Worlds
              THEN appWorld' = last'.w /\ last'.err = "none"
              ELSE appWorld' = appWorld /\ last'.err = "RuntimeError"
       /\ (last'.op = "start" /\ appWorld = None) =>
              (last'.err = "RuntimeError" /\ ~appRunning' /\ ~appRunning)
       /\ (last'.op = "start" /\ appWorld # None) =>
              (last'.err = "none" /\ appRunning')]_vars

\* an object that is no World assigned while w1 is active
C33_Witness ==
    /\ last.op = "current_world" /\ last.w \in NonActors
    /\ last.err = "RuntimeError"
    /\ appWorld = "w1"

(***************************************************************************)
(* C34: whatever the lines of the configuration file are, no exception     *)
(* leaves read_config.                                                     *)
(***************************************************************************)
C34_ConfigNeverAbortsClaim == cfgPc # "raised"

(***************************************************************************)
(* C35: the frame limit of the application is positive in every reachable  *)
(* state, whatever was assigned to fps and whatever fpsLimit the           *)
(* configuration file gave.                                                *)
(***************************************************************************)
C35_FpsPositiveClaim == fps_limit > 0

C37_ListsAreSnapshots ==
    [][/\ last'.op = "get_actors: list" =>
              SeqToBag(held') = get_actors(objects'[last'.w], last'.kind)
       /\ last'.op = "get_intersecting_actors: list" =>
              SeqToBag(held') =
                  get_intersecting_actors(objects'[last'.w], last'.a, last'.kind)
       /\ last'.op \notin {"get_actors: list", "get_intersecting_actors: list"} =>
              held' = held
       /\ last'.op = "list: next" =>
              (last'.err = "none" /\ yielded' = SubSeq(held, 1, cursor'))]_vars

\* a loop over a list of two run to its end, its second element removed from
\* the world before the loop took it
C37_Witness ==
    /\ last.op = "list: next"
    /\ Len(held) = 2 /\ cursor = 2 /\ yielded = held
    /\ held[2] \notin Registered(last.w)

\* how often actor a is dispatched in the act cycle of the frame just made
Dispatches(a) == Cardinality({p \in DOMAIN actLog : actLog[p] = a})

(***************************************************************************)
(* C38: in every executed frame, whatever the act order is (a kind listed  *)
(* twice, a kind with no actor), act() is invoked exactly once on every    *)
(* actor registered in the world.                                          *)
(***************************************************************************)
C38_ExactlyOnceClaim ==
    (Stepped /\ F.acted) =>
        \A a \in Registered(last.w) : Dispatches(a) = 1

(***************************************************************************)
(* C40: the act order matches on the exact kind of an actor: an actor      *)
(* whose own kind is not listed is dispatched after every actor of every   *)
(* listed kind, also when a kind above its own is listed.                  *)
(***************************************************************************)
C40_ExactKindMatch ==
    (Stepped /\ F.acted) =>
        LET order == act_order[last.w]
            listed == {order[i] : i \in 1 .. Len(order)}
        IN \A p, q \in DOMAIN actLog :
               (/\ actLog[p] \in Actors /\ actLog[q] \in Actors
                /\ KindOf[actLog[p]] \notin listed
                /\ KindOf[actLog[q]] \in listed) => q < p

\* Wall and Coin listed: the golem a3, a Wall by inheritance, comes after the
\* coin a4
C40_Witness ==
    /\ Stepped /\ F.acted
    /\ act_order[last.w] = <<"Wall", "Coin">>
    /\ {"a1", "a3", "a4"} \subseteq Registered(last.w)
    /\ \E p, q \in DOMAIN actLog : actLog[q] = "a4" /\ actLog[p] = "a3" /\ q < p

(***************************************************************************)
(* C39: a spatial query invoked on an actor a that is registered in one    *)
(* world returns only actors registered in that world, also when that      *)
(* world is not the active world of the application.                       *)
(***************************************************************************)
C39_OwnWorldClaim ==
    (last.op \in {"get_actors_at_offset", "get_actors_in_range"}) =>
        \A w \in Worlds :
            Home(last.a) = {w} => BagToSet(last.res) \subseteq Registered(w)

====
